---- MODULE Spec2Model ----
(***************************************************************************)
(* Resumable harvesting pipeline of harvard-scraper:                       *)
(*   - StateManager (src/src/lib/state-manager.js): the checkpointed       *)
(*     progress state and its persisted snapshot SCRAPING_STATE;           *)
(*   - the batch orchestrator (src/src/main.js): search, filter, batches   *)
(*     of crawler requests, request handler / failedRequestHandler,        *)
(*     checkpoints, finalize, process exit, interruption and restart.      *)
(*                                                                         *)
(*   - the search client (src/unnamed/part_003, lines 1-184, required by   *)
(*     main.js as ./lib/api.js): sanitizeInput, searchProfiles, withRetry. *)
(*                                                                         *)
(* Specifications:                                                         *)
(*   Spec          one or more process lifetimes of main.js                *)
(*   SpecSM        the StateManager driven call by call against the mock   *)
(*                 store, as the state-manager tests drive it              *)
(*   SpecRestarts  a run interrupted and started again with its input      *)
(*   SpecRun       one uninterrupted process lifetime                      *)
(*   SpecSearch    one process lifetime with searchProfiles page by page   *)
(*   SpecPages     searchProfiles when every page is a full page           *)
(*   SpecLoop      searchProfiles against a service that never runs dry    *)
(*   SpecSanitize  the request payload built from free-text inputs         *)
(*   SpecStats     getStats after a count of markProcessed calls           *)
(*   SpecResume    a run started again with any query and any maxItems     *)
(*   SpecTimeout   one process lifetime with handler calls that time out   *)
(*   SpecCheckpoints  one process lifetime whose checkpoint writes may fail *)
(*                                                                         *)
(* Abstractions: timestamps (startedAt, lastCheckpointAt) and              *)
(* checkpointCount are left out; a record of the dataset is its personId   *)
(* and its variant (enrichedProfile, partialData or failedData, which       *)
(* fixes its fields), and the dataset is the bag of its records (nothing   *)
(* reads their order).                                                     *)
(* The crawlers of a process share the default request queue of crawlee,  *)
(* which keeps one request per URL and does not run a handled one again.   *)
(* Numbers are integers, except in _getProgressPercentage, whose double    *)
(* arithmetic is computed on binary digits.                                *)
(***************************************************************************)
EXTENDS Integers, Sequences, FiniteSets, Bags, TLC

VARIABLES
    state,          \* StateManager.state (in memory)
    kvState,        \* key-value store, key SCRAPING_STATE: {} (null) or {snapshot}
    kvDump,         \* key-value store, key SEARCH_DUMP: {} (null) or {profiles}
    dataset,        \* the dataset Actor.pushData appends to (durable), a bag of records
    pushed,         \* the records pushData accepted in this process lifetime
    pc,             \* position of main.js in this process lifetime
    input,          \* Actor.getInput(): searchParams and maxItems
    isResumed,      \* value returned by stateManager.initialize
    profiles,       \* main: profiles
    remainingProfiles, \* main: remainingProfiles
    batchIndex,     \* main: batchIndex
    totalProcessed, \* main: let totalProcessed (per process lifetime)
    queue,          \* crawler request queue of the batch: set of [id, retryCount]
    cur,            \* the request the crawler is handling: {} or {[id, retryCount]}
    hpc,            \* position inside requestHandler / failedRequestHandler
    restarts,       \* process lifetimes started after the first
    sameAsPrev,     \* this lifetime's query equals the previous lifetime's
    lastCall,       \* SpecSM: the StateManager call made by the last step
    savedFrom,      \* SpecSM: in-memory progress at the saveCheckpoint that wrote kvState
    lastCheckpoint, \* history: what the last saveCheckpoint that returned wrote, {} if
                    \* none did since the store was cleared
    crashedAfterSearch, \* history: the previous process was interrupted between its
                    \* search (list cached) and its first batch; until this one's search
    outcome,        \* environment: what the enrichment of each id's page does
    startTotal,     \* history: {} before the first initialize that returned, then
                    \* for the latest one its query q, the totalProcessed n it left,
                    \* whether it resumed, and in before the n of the one before it
                    \* when that had the same query
    sp,             \* searchProfiles: its position and its locals
    wire,           \* history of the fetches of the search in progress
    text,           \* SpecSanitize: the free-text inputs and the payload built from them
    late            \* SpecTimeout: the handler invocations that timed out and still run

vars == <<state, kvState, kvDump, dataset, pushed, pc, input, isResumed,
          profiles, remainingProfiles, batchIndex, totalProcessed, queue, cur, hpc,
          restarts, sameAsPrev, lastCall, savedFrom, lastCheckpoint,
          crashedAfterSearch, startTotal, outcome, sp, wire, text, late>>

\* the search client, written by the steps of searchProfiles only
searchVars == <<sp, wire, text>>

\* all that main.js and the search client hold, but the free-text inputs
mainVars_butText ==
    <<kvDump, dataset, pushed, pc, input, profiles, remainingProfiles, batchIndex,
      totalProcessed, queue, cur, hpc, restarts, sameAsPrev, lastCheckpoint,
      crashedAfterSearch, startTotal, outcome, sp, wire, lastCall, savedFrom,
      late>>

mainVars == <<kvDump, dataset, pushed, pc, input, profiles,
              remainingProfiles, batchIndex, totalProcessed, queue, cur, hpc, restarts,
              sameAsPrev, lastCheckpoint, crashedAfterSearch, startTotal, outcome,
              searchVars, late>>

----------------------------------------------------------------------------
(* Bounds of the model *)

\* ids 1..MaxProfiles can be returned by the search
MaxProfiles == 2

\* process lifetimes after the first one
MaxRestarts == 1

\* SpecSM: markProcessed calls on one StateManager
MaxMarks == 3

\* main.js:25 sets CHECKPOINT_INTERVAL = 25 and main.js:20 BATCH_SIZE = 200; the
\* model runs the same code with both scaled down, so that a periodic checkpoint
\* and a second batch happen within MaxProfiles ids.
CHECKPOINT_INTERVAL == 2

BATCH_SIZE == 1

\* crawler option maxRequestRetries
maxRequestRetries == 2

Ids == 1..MaxProfiles

----------------------------------------------------------------------------
(* Values *)

\* a JavaScript value that may be null / undefined: {} or {v}
None == {}

Some(v) == {v}

The(opt) == CHOOSE v \in opt : TRUE

Strs == {"", "x"}

\* searchParams: { searchKeywords, department, institution }
Queries == [searchKeywords : Strs, department : Strs, institution : Strs]

Q0 == [searchKeywords |-> "x", department |-> "", institution |-> ""]

Q1 == [searchKeywords |-> "", department |-> "", institution |-> ""]

MainQueries == {Q0, Q1}

MaxItemsChoices == {MaxProfiles - 1, MaxProfiles}

Range(s) == {s[i] : i \in 1..Len(s)}

\* new Set(array): insertion order, later duplicates dropped
RECURSIVE NewSet(_)
NewSet(arr) ==
    IF arr = <<>> THEN <<>>
    ELSE LET front == NewSet(SubSeq(arr, 1, Len(arr) - 1))
             last == arr[Len(arr)]
         IN IF last \in Range(front) THEN front ELSE Append(front, last)

\* Set.prototype.add
SetAdd(s, id) == IF id \in Range(s) THEN s ELSE Append(s, id)

\* Set.prototype.size
SetSize(s) == Len(s)

----------------------------------------------------------------------------
(* Search client: src/unnamed/part_003, lines 1-184 (./lib/api.js) *)

\* searchProfiles: const pageSize = 10
pageSize == 10

\* searchProfiles: const MAX_EMPTY_PAGES = 5
MAX_EMPTY_PAGES == 5

\* withRetry(fn, maxRetries = 3)
maxRetries == 3

\* withRetry: const delays = [1000, 2000, 4000]
delays == <<1000, 2000, 4000>>

\* people the search service holds for a query, over all its pages
MaxFound == 3

\* people the search service puts on one page
MaxPage == 2

\* longest free-text input
MaxLen == 3

\* sanitizeInput cuts at 200 UTF-16 code units; the model runs the same code with
\* the limit scaled down so that inputs of MaxLen units are cut
LENGTH_LIMIT == 2

\* a string is the sequence of its UTF-16 code units: a, COMBINING ACUTE ACCENT,
\* space, <, TAB, GREEK QUESTION MARK
Alphabet == {97, 769, 32, 60, 9, 894}

\* /[\x00-\x1F\x7F]/
ControlCharacters == 0..31 \cup {127}

\* /[<>'";&|`$()\\]/
Metacharacters == {60, 62, 39, 34, 59, 38, 124, 96, 36, 40, 41, 92}

\* what String.prototype.trim removes at both ends
WhiteSpace == {9, 10, 11, 12, 13, 32, 160, 5760, 8232, 8233, 8239, 8287, 12288, 65279}
                  \cup 8192..8202

\* a JavaScript value passed as free text: a string or something else
Str(s) == [type |-> "string", chars |-> s]

Undefined == [type |-> "undefined", chars |-> <<>>]

ANumber == [type |-> "number", chars |-> <<>>]

\* value || ''
OrEmpty(v) ==
    IF v.type = "undefined" \/ (v.type = "string" /\ v.chars = <<>>) THEN Str(<<>>)
    ELSE v

\* String.prototype.normalize('NFC') on the code units of Alphabet: GREEK QUESTION
\* MARK has the singleton decomposition ';', a followed by COMBINING ACUTE ACCENT
\* composes to a-acute (225)
RECURSIVE normalize(_)
normalize(s) ==
    IF s = <<>> THEN <<>>
    ELSE LET front == normalize(SubSeq(s, 1, Len(s) - 1))
             c == s[Len(s)]
         IN IF c = 894 THEN Append(front, 59)
            ELSE IF c = 769 /\ front # <<>> /\ front[Len(front)] = 97
                 THEN Append(SubSeq(front, 1, Len(front) - 1), 225)
            ELSE Append(front, c)

\* String.prototype.replace(/[...]/g, '')
replace(s, class) == SelectSeq(s, LAMBDA c : c \notin class)

\* String.prototype.substring(0, end)
substring(s, end) == SubSeq(s, 1, IF end < Len(s) THEN end ELSE Len(s))

\* String.prototype.trim
RECURSIVE trim(_)
trim(s) ==
    IF s = <<>> THEN s
    ELSE IF s[1] \in WhiteSpace THEN trim(Tail(s))
    ELSE IF s[Len(s)] \in WhiteSpace THEN trim(SubSeq(s, 1, Len(s) - 1))
    ELSE s

\* sanitizeInput with the Unicode normalization applied last
sanitizeInput_normalizedLast(value) ==
    IF value.type # "string" THEN <<>>
    ELSE trim(normalize(substring(replace(replace(value.chars, ControlCharacters),
                                          Metacharacters), LENGTH_LIMIT)))

\* sanitizeInput(input)
sanitizeInput(value) ==
    IF value.type # "string" THEN <<>>
    ELSE trim(substring(replace(replace(normalize(value.chars), ControlCharacters),
                                Metacharacters), LENGTH_LIMIT))

\* searchProfiles: const payload = { Keyword, InstitutionName, DepartmentName,
\* Count, Offset } (the fields that are the same in every request are left out)
payload(keyword, department, institution, offset) ==
    [Keyword |-> sanitizeInput(OrEmpty(keyword)),
     InstitutionName |-> sanitizeInput(OrEmpty(institution)),
     DepartmentName |-> sanitizeInput(OrEmpty(department)),
     Count |-> pageSize,
     Offset |-> offset]

\* Array.prototype.slice(0, end)
slice(arr, end) ==
    LET e == IF end < 0 THEN (IF Len(arr) + end < 0 THEN 0 ELSE Len(arr) + end)
             ELSE IF end > Len(arr) THEN Len(arr) ELSE end
    IN SubSeq(arr, 1, e)

\* searchProfiles is not running
NoSearch ==
    [pc |-> "idle", maxItems |-> 0, profiles |-> <<>>, offset |-> 1,
     totalAvailable |-> None, emptyPagesCount |-> 0, i |-> 0]

\* searchProfiles({ ..., maxItems }): its locals before the loop
\* a search whose first offset is 0
searchProfiles_fromZero(maxItems) ==
    [NoSearch EXCEPT !.pc = "while", !.maxItems = maxItems, !.offset = 0]

searchProfiles(maxItems) == [NoSearch EXCEPT !.pc = "while", !.maxItems = maxItems]

\* no fetch yet: pages is the number of withRetry calls, attempts the fetches of the
\* current one and waits the delays it slept, served the people the service sent,
\* emptyRun the successful empty pages in a row up to now, first whether the first
\* response was an empty page with Count 0 ("zero") or not ("other"),
\* exhausted whether a page failed on all its attempts and got what was collected then
NoWire ==
    [pages |-> 0, attempts |-> 0, waits |-> <<>>, served |-> 0, emptyRun |-> 0,
     first |-> "none", exhausted |-> FALSE, got |-> <<>>, last |-> "none"]

\* data.Count as the responses carry it: 0 (or absent), below and above the second offset
Counts == {0, 1, pageSize + 2}

\* the responses of the service: data.People is absent or a list of people
Responses ==
    [Count : Counts,
     People : {None} \cup {Some(l) : l \in UNION {[1..n -> Ids] : n \in 0..MaxPage}}]

\* !data.People || !Array.isArray(data.People) || data.People.length === 0
isEmptyPage(data) == data.People = None \/ Len(The(data.People)) = 0

\* if (totalAvailable === null && data.Count) totalAvailable = data.Count
trackTotal(f, data) ==
    IF f.totalAvailable = None /\ data.Count # 0 THEN Some(data.Count)
    ELSE f.totalAvailable

\* the branch of an empty page: count it, break or skip to the next offset
emptyPage(f, total) ==
    LET n == f.emptyPagesCount + 1
        g == [f EXCEPT !.totalAvailable = total, !.emptyPagesCount = n]
    IN IF n >= MAX_EMPTY_PAGES THEN [g EXCEPT !.pc = "return"]
       ELSE IF total # None /\ f.offset > The(total) THEN [g EXCEPT !.pc = "return"]
       ELSE [g EXCEPT !.offset = f.offset + pageSize, !.pc = "while"]

\* a loop over data.People that pushes every item
pushItems_all(list, people, maxItems) == list \o people

\* for (const item of data.People) { if (profiles.length >= maxItems) break; push }
RECURSIVE pushItems(_, _, _)
pushItems(list, people, maxItems) ==
    IF people = <<>> \/ Len(list) >= maxItems THEN list
    ELSE pushItems(Append(list, Head(people)), Tail(people), maxItems)

\* a page with people that leaves emptyPagesCount as it is
fullPage_keepsCount(f, total, people) ==
    LET got == pushItems(f.profiles, people, f.maxItems)
        g == [f EXCEPT !.totalAvailable = total, !.profiles = got]
    IN IF Len(got) >= f.maxItems THEN [g EXCEPT !.pc = "return"]
       ELSE [g EXCEPT !.offset = f.offset + pageSize, !.pc = "while"]

\* a page with people: reset the counter, collect, break at maxItems or go on
fullPage(f, total, people) ==
    LET got == pushItems(f.profiles, people, f.maxItems)
        g == [f EXCEPT !.totalAvailable = total, !.emptyPagesCount = 0,
                       !.profiles = got]
    IN IF Len(got) >= f.maxItems THEN [g EXCEPT !.pc = "return"]
       ELSE [g EXCEPT !.offset = f.offset + pageSize, !.pc = "while"]

\* a catch that throws the error on to the caller
searchCatch_rethrows(f) == [f EXCEPT !.pc = "thrown"]

\* searchProfiles: catch (error) { console.error(...); break; }
searchCatch(f) == [f EXCEPT !.pc = "return"]

\* withRetry: the catch of attempt i, the next turn of its loop and throw lastError
withRetryCatch(f) ==
    IF f.i + 1 < maxRetries THEN [f EXCEPT !.i = f.i + 1]
    ELSE searchCatch([f EXCEPT !.i = f.i + 1])

\* withRetry: the delay slept after attempt i threw, if any
sleptAfter(i) == IF i < maxRetries - 1 THEN <<delays[i + 1]>> ELSE <<>>

\* no free-text input taken and no payload built
NoText ==
    [keyword |-> Undefined, department |-> Undefined, institution |-> Undefined,
     payload |-> None]

----------------------------------------------------------------------------
(* JavaScript numbers: the IEEE 754 double arithmetic of                     *)
(* Math.round((totalProcessed / totalRequested) * 100), on binary digits      *)

\* significand width of an IEEE 754 double
SIGNIFICAND == 53

\* the binary digits of a natural number, most significant first (<<>> for 0)
RECURSIVE BitsOf(_)
BitsOf(n) == IF n = 0 THEN <<>> ELSE Append(BitsOf(n \div 2), n % 2)

\* the natural number a sequence of binary digits, most significant first, stands for
RECURSIVE ValueOf(_)
ValueOf(bits) ==
    IF bits = <<>> THEN 0
    ELSE 2 * ValueOf(SubSeq(bits, 1, Len(bits) - 1)) + bits[Len(bits)]

\* n zeros
Zeros(n) == [k \in 1..n |-> 0]

\* the k binary digits of n < 2^k
Padded(n, k) == Zeros(k - Len(BitsOf(n))) \o BitsOf(n)

\* the first n binary digits of r / b after the binary point, for r < b < 2^23 and
\* n a multiple of 8, eight digits at a time
RECURSIVE FractionBits(_, _, _)
FractionBits(r, b, n) ==
    IF n = 0 THEN <<>>
    ELSE Padded((256 * r) \div b, 8) \o FractionBits((256 * r) % b, b, n - 8)

\* what is left of r / b after these n digits: (r * 2^n) mod b
RECURSIVE RemainderAfter(_, _, _)
RemainderAfter(r, b, n) ==
    IF n = 0 THEN r
    ELSE RemainderAfter((256 * r) % b, b, n - 8)

\* binary digits without the leading zeros
Stripped(bits) ==
    IF \A k \in 1..Len(bits) : bits[k] = 0 THEN <<>>
    ELSE LET first == CHOOSE k \in 1..Len(bits) :
                          bits[k] = 1 /\ \A j \in 1..(k - 1) : bits[j] = 0
         IN SubSeq(bits, first, Len(bits))

\* bits + 1, one digit longer when all digits were 1
Incremented(bits) ==
    IF \A k \in 1..Len(bits) : bits[k] = 1 THEN <<1>> \o Zeros(Len(bits))
    ELSE LET last == CHOOSE k \in 1..Len(bits) :
                         bits[k] = 0 /\ \A j \in (k + 1)..Len(bits) : bits[j] = 1
         IN [k \in 1..Len(bits) |-> IF k < last THEN bits[k]
                                    ELSE IF k = last THEN 1 ELSE 0]

\* 100 * bits + carry in binary digits, eight digits of bits at a time from the right
RECURSIVE HundredTimes(_, _)
HundredTimes(bits, carry) ==
    IF bits = <<>> THEN BitsOf(carry)
    ELSE LET k == IF Len(bits) < 8 THEN Len(bits) ELSE 8
             t == 100 * ValueOf(SubSeq(bits, Len(bits) - k + 1, Len(bits))) + carry
         IN HundredTimes(SubSeq(bits, 1, Len(bits) - k), t \div 2^k)
                \o Padded(t % 2^k, k)

\* round to nearest, ties to even: the digits all (first digit 1, the digit at
\* SIGNIFICAND of weight 2^e), continued by digits that are not all zero iff more,
\* as the double [m, e] with a significand m of SIGNIFICAND digits
RoundedToDouble(all, e, more) ==
    LET m == SubSeq(all, 1, SIGNIFICAND)
        guard == all[SIGNIFICAND + 1]
        sticky == more \/ \E k \in (SIGNIFICAND + 2)..Len(all) : all[k] = 1
    IN IF guard = 1 /\ (sticky \/ m[SIGNIFICAND] = 1)
       THEN LET up == Incremented(m)
            IN IF Len(up) > SIGNIFICAND
               THEN [m |-> SubSeq(up, 1, SIGNIFICAND), e |-> e + 1]
               ELSE [m |-> up, e |-> e]
       ELSE [m |-> m, e |-> e]

\* the double a / b for naturals 0 < a, 0 < b < 2^23 (JavaScript number division)
Quotient(a, b) ==
    LET int == BitsOf(a \div b)
        r == a % b
        n == 88
        digits == int \o FractionBits(r, b, n)
        all == Stripped(digits)
        lead == Len(digits) - Len(all)
    IN RoundedToDouble(all, Len(int) - lead - SIGNIFICAND, RemainderAfter(r, b, n) # 0)

\* the double x * 100 for a double x > 0
TimesHundred(x) ==
    LET p == Stripped(HundredTimes(x.m, 0)) \o <<0>>
    IN RoundedToDouble(p, x.e + Len(p) - 1 - SIGNIFICAND, FALSE)

\* Math.round of a double x with 0 < x < 2^SIGNIFICAND: floor(x + 0.5)
MathRound(x) ==
    LET k == SIGNIFICAND + x.e
    IN IF x.e >= 0 THEN ValueOf(x.m \o Zeros(x.e))
       ELSE IF k < 0 THEN 0
       ELSE ValueOf(SubSeq(x.m, 1, k)) + x.m[k + 1]

----------------------------------------------------------------------------
(* StateManager *)

\* constructor: this.state
ConstructorState ==
    [processedPersonIds |-> <<>>, totalProcessed |-> 0, totalRequested |-> 0,
     searchParams |-> None, isResumed |-> FALSE]

\* _canResume that leaves the department out of the comparison
canResume_withoutDepartment(savedState, currentParams) ==
    IF savedState = None \/ The(savedState).searchParams = None THEN FALSE
    ELSE LET saved == The(The(savedState).searchParams)
         IN /\ saved.searchKeywords = currentParams.searchKeywords
            /\ saved.institution = currentParams.institution

\* _canResume(savedState, currentParams)
_canResume(savedState, currentParams) ==
    IF savedState = None \/ The(savedState).searchParams = None THEN FALSE
    ELSE LET saved == The(The(savedState).searchParams)
         IN /\ saved.searchKeywords = currentParams.searchKeywords
            /\ saved.department = currentParams.department
            /\ saved.institution = currentParams.institution

\* a resume branch that restarts the counter and keeps the old target
ResumedState_counterReset(saved, maxItems) ==
    [processedPersonIds |->
        NewSet(IF saved.processedIds = None THEN <<>> ELSE The(saved.processedIds)),
     totalProcessed |-> 0,
     totalRequested |-> saved.totalRequested,
     searchParams |-> saved.searchParams,
     isResumed |-> TRUE]

\* initialize, resume branch: the state built from savedState
ResumedState(saved, maxItems) ==
    [processedPersonIds |->
        NewSet(IF saved.processedIds = None THEN <<>> ELSE The(saved.processedIds)),
     totalProcessed |-> saved.totalProcessed,
     totalRequested |-> maxItems,
     searchParams |-> saved.searchParams,
     isResumed |-> TRUE]

\* _clearState: the state it assigns
ClearedState ==
    [processedPersonIds |-> <<>>, totalProcessed |-> 0, totalRequested |-> 0,
     searchParams |-> None, isResumed |-> FALSE]

\* initialize(searchParams, maxItems), with the store answering
initialize(searchParams, maxItems) ==
    IF _canResume(kvState, searchParams)
    THEN /\ state' = ResumedState(The(kvState), maxItems)
         /\ kvState' = kvState
         /\ isResumed' = TRUE
    ELSE /\ kvState' = None
         /\ state' = [ClearedState EXCEPT !.searchParams = Some(searchParams),
                                          !.totalRequested = maxItems]
         /\ isResumed' = FALSE

\* isProcessed(personId)
isProcessed(personId) == personId \in Range(state.processedPersonIds)

\* getProcessedIds()
getProcessedIds == Range(state.processedPersonIds)

\* markProcessed(personId): the state after the call
markProcessed(personId) ==
    [state EXCEPT !.processedPersonIds = SetAdd(@, personId),
                  !.totalProcessed = @ + 1]

\* a stateToSave that lists the ids under processedPersonIds
stateToSave_idsUnderOtherField ==
    [processedIds |-> None,
     processedPersonIds |-> Some(state.processedPersonIds),
     totalProcessed |-> state.totalProcessed,
     totalRequested |-> state.totalRequested,
     searchParams |-> state.searchParams]

\* shouldCheckpoint(); state-manager.js:14 has its own CHECKPOINT_INTERVAL, of the
\* same value as the one of main.js
shouldCheckpoint == state.totalProcessed % CHECKPOINT_INTERVAL = 0

\* a stateToSave that stores the remaining count as totalProcessed
stateToSave_remainingCount ==
    [processedIds |-> Some(state.processedPersonIds),
     processedPersonIds |-> None,
     totalProcessed |-> state.totalRequested - state.totalProcessed,
     totalRequested |-> state.totalRequested,
     searchParams |-> state.searchParams]

\* a snapshot that carries only the ids marked since the snapshot in the store
stateToSave_delta ==
    LET stored == IF kvState = None \/ The(kvState).processedIds = None THEN {}
                  ELSE Range(The(The(kvState).processedIds))
    IN [processedIds |-> Some(SelectSeq(state.processedPersonIds,
                                        LAMBDA id : id \notin stored)),
        processedPersonIds |-> None,
        totalProcessed |-> state.totalProcessed,
        totalRequested |-> state.totalRequested,
        searchParams |-> state.searchParams]

\* saveCheckpoint: stateToSave
stateToSave ==
    [processedIds |-> Some(state.processedPersonIds),
     processedPersonIds |-> None,
     totalProcessed |-> state.totalProcessed,
     totalRequested |-> state.totalRequested,
     searchParams |-> state.searchParams]

\* saveCheckpoint, with setValue succeeding
saveCheckpoint ==
    /\ kvState' = Some(stateToSave)
    /\ state' = state

\* a finalize that clears the store and leaves the memory as it is
finalize_keepsMemory ==
    /\ kvState' = None
    /\ state' = state

\* finalize -> _clearState, with setValue succeeding
finalize ==
    /\ kvState' = None
    /\ state' = ClearedState

\* getRemainingCount()
getRemainingCount == state.totalRequested - state.totalProcessed

\* _getProgressPercentage()
_getProgressPercentage ==
    IF state.totalRequested = 0 THEN 0
    ELSE IF state.totalProcessed = 0 THEN 0
    ELSE MathRound(TimesHundred(Quotient(state.totalProcessed, state.totalRequested)))

\* getStats(): the fields that do not depend on the clock
getStats ==
    [totalProcessed |-> state.totalProcessed,
     totalRequested |-> state.totalRequested,
     remaining |-> getRemainingCount,
     progressPercentage |-> _getProgressPercentage,
     isResumed |-> state.isResumed]

----------------------------------------------------------------------------
(* SpecSM: the StateManager against the mock store of the tests *)

\* no call yet; savedState is what initialize read from the store (its local
\* savedState), from is savedFrom at that moment, ret is the value shouldCheckpoint
\* returned; before is the memory as finalize found it (savedState the store as
\* it found it), stats the record getStats returned
NoCall == [op |-> "none", q |-> Q0, m |-> 0, id |-> 0, savedState |-> None,
           from |-> None, ret |-> FALSE, before |-> None, stats |-> None]

\* the snapshots the tests put into mockState (Tests 2, 3, 11): the ids under
\* processedPersonIds, with the matching totalProcessed
TestSnapshots ==
    {[processedIds |-> None,
      processedPersonIds |-> Some(ids),
      totalProcessed |-> Len(ids),
      totalRequested |-> m,
      searchParams |-> Some(q)] :
        ids \in {<<1>>, <<1, 2>>, <<2, 1>>}, m \in MaxItemsChoices, q \in {Q0, Q1}}

\* resetMockState()
SMReset ==
    /\ kvState' = None
    /\ savedFrom' = None
    /\ lastCall' = [NoCall EXCEPT !.op = "reset"]
    /\ UNCHANGED <<state, isResumed, mainVars>>

\* mockState['SCRAPING_STATE'] = { processedPersonIds: [...], ... }
SMSeed ==
    \E s \in TestSnapshots :
        /\ kvState' = Some(s)
        /\ savedFrom' = None
        /\ lastCall' = [NoCall EXCEPT !.op = "seed"]
        /\ UNCHANGED <<state, isResumed, mainVars>>

\* new StateManager(mockActor)
SMConstruct ==
    /\ state' = ConstructorState
    /\ lastCall' = [NoCall EXCEPT !.op = "construct"]
    /\ UNCHANGED <<kvState, savedFrom, isResumed, mainVars>>

\* await stateManager.initialize(searchParams, maxItems)
SMInitialize ==
    \E q \in Queries, m \in MaxItemsChoices :
        /\ initialize(q, m)
        /\ savedFrom' = IF kvState' = None THEN None ELSE savedFrom
        /\ lastCall' = [NoCall EXCEPT !.op = "initialize", !.q = q, !.m = m,
                                      !.savedState = kvState, !.from = savedFrom]
        /\ UNCHANGED mainVars

\* stateManager.markProcessed(id)
SMMark ==
    \E id \in Ids :
        /\ state.totalProcessed < MaxMarks
        /\ state' = markProcessed(id)
        /\ lastCall' = [NoCall EXCEPT !.op = "markProcessed", !.id = id]
        /\ UNCHANGED <<kvState, savedFrom, isResumed, mainVars>>

\* await stateManager.saveCheckpoint()
SMSave ==
    /\ saveCheckpoint
    /\ savedFrom' = Some(state)
    /\ lastCall' = [NoCall EXCEPT !.op = "saveCheckpoint"]
    /\ UNCHANGED <<isResumed, mainVars>>

\* await stateManager.finalize()
SMFinalize ==
    /\ finalize
    /\ savedFrom' = None
    /\ lastCall' = [NoCall EXCEPT !.op = "finalize", !.savedState = kvState,
                                  !.before = Some(state)]
    /\ UNCHANGED <<isResumed, mainVars>>

\* stateManager.shouldCheckpoint()
SMShouldCheckpoint ==
    /\ lastCall' = [NoCall EXCEPT !.op = "shouldCheckpoint", !.ret = shouldCheckpoint]
    /\ UNCHANGED <<state, kvState, savedFrom, isResumed, mainVars>>

\* a StateManager just constructed, an empty store, nothing of main.js started
InitUnit ==
    /\ state = ConstructorState
    /\ kvState = None
    /\ kvDump = None
    /\ dataset = EmptyBag
    /\ pushed = EmptyBag
    /\ pc = "unit"
    /\ input = [searchParams |-> Q0, maxItems |-> MaxProfiles]
    /\ isResumed = FALSE
    /\ profiles = <<>>
    /\ remainingProfiles = <<>>
    /\ batchIndex = 0
    /\ totalProcessed = 0
    /\ queue = {}
    /\ cur = None
    /\ hpc = "idle"
    /\ restarts = 0
    /\ sameAsPrev = FALSE
    /\ lastCall = NoCall
    /\ savedFrom = None
    /\ lastCheckpoint = None
    /\ crashedAfterSearch = FALSE
    /\ startTotal = None
    /\ outcome = [id \in 1..MaxProfiles |-> "any"]
    /\ sp = NoSearch
    /\ wire = NoWire
    /\ late = {}

InitSM ==
    /\ InitUnit
    /\ text = NoText

NextSM ==
    \/ SMReset
    \/ SMSeed
    \/ SMConstruct
    \/ SMInitialize
    \/ SMMark
    \/ SMSave
    \/ SMFinalize
    \/ SMShouldCheckpoint

SpecSM == InitSM /\ [][NextSM]_vars

----------------------------------------------------------------------------
(* main.js: one process lifetime *)

\* what no step of main.js writes: the variables of the StateManager test driver, the
\* behaviour of the pages, the search client and the handlers that timed out
smVars == <<lastCall, savedFrom, outcome, searchVars, late>>

\* history variables, written by few steps
histVars == <<lastCheckpoint, crashedAfterSearch, startTotal>>

\* searchProfiles(...): the lists it can return, each of length <= maxItems
SearchResults(maxItems) ==
    {[i \in 1..n |-> i] : n \in {k \in 0..MaxProfiles : k <= maxItems}}

\* Math.ceil(remainingProfiles.length / BATCH_SIZE)
NumBatches == (Len(remainingProfiles) + BATCH_SIZE - 1) \div BATCH_SIZE

\* a slice that leaves out the first profile of every batch
batchProfiles_withoutFirst ==
    LET batchStart == batchIndex * BATCH_SIZE
        batchEnd == IF batchStart + BATCH_SIZE < Len(remainingProfiles)
                    THEN batchStart + BATCH_SIZE ELSE Len(remainingProfiles)
    IN SubSeq(remainingProfiles, batchStart + 2, batchEnd)

\* remainingProfiles.slice(batchStart, batchEnd)
batchProfiles ==
    LET batchStart == batchIndex * BATCH_SIZE
        batchEnd == IF batchStart + BATCH_SIZE < Len(remainingProfiles)
                    THEN batchStart + BATCH_SIZE ELSE Len(remainingProfiles)
    IN SubSeq(remainingProfiles, batchStart + 1, batchEnd)

Kinds == {"complete", "partial", "failed"}

\* enrichment of an id's page: succeeds on every attempt, fails on every attempt, or
\* either on each attempt
Outcomes == {"ok", "fails", "any"}

AnyOutcome == [id \in Ids |-> "any"]

\* the record pushData appends: enrichedProfile, partialData or failedData
Record(id, kind) == [personId |-> id, kind |-> kind]

\* the profile of the candidate list with this personId (api.js:123-130); the
\* texts are named, not spelled
profile(id) ==
    [displayName |-> <<"DisplayName", id>>,
     personId |-> id,
     institutionName |-> <<"InstitutionName", id>>,
     departmentName |-> <<"DepartmentName", id>>,
     facultyRank |-> <<"FacultyRank", id>>,
     profileUrl |-> <<"PROFILE_BASE", id>>]

\* main.js:198-214, with the texts of the page the extraction returned
enrichedProfile(id) ==
    [personId |-> profile(id).personId,
     profileUrl |-> profile(id).profileUrl,
     displayName |-> <<"result.DisplayName", id>>,
     firstName |-> <<"result.FirstName", id>>,
     lastName |-> <<"result.LastName", id>>,
     title |-> <<"result.Title", id>>,
     institution |-> <<"result.Institution", id>>,
     department |-> <<"result.Department", id>>,
     facultyRank |-> profile(id).facultyRank,
     address |-> <<"result.Address", id>>,
     phone |-> <<"result.Phone", id>>,
     fax |-> <<"result.Fax", id>>,
     email |-> <<"extractedEmail", id>>,
     collectedAt |-> "now",
     query |-> input.searchParams]

\* main.js:237-248
partialData(id) ==
    [personId |-> profile(id).personId,
     profileUrl |-> profile(id).profileUrl,
     displayName |-> profile(id).displayName,
     institution |-> profile(id).institutionName,
     department |-> profile(id).departmentName,
     facultyRank |-> profile(id).facultyRank,
     error |-> "error.message",
     isPartial |-> TRUE,
     collectedAt |-> "now",
     query |-> input.searchParams]

\* main.js:264-271
failedData(id) ==
    [personId |-> profile(id).personId,
     profileUrl |-> profile(id).profileUrl,
     displayName |-> profile(id).displayName,
     error |-> "error.message",
     isPartial |-> TRUE,
     collectedAt |-> "now"]

\* the object a record of this process stands for
Pushed(r) ==
    IF r.kind = "complete" THEN enrichedProfile(r.personId)
    ELSE IF r.kind = "partial" THEN partialData(r.personId)
    ELSE failedData(r.personId)

\* await Actor.pushData(record) resolved
pushData(id, kind) ==
    /\ dataset' = dataset (+) SetToBag({Record(id, kind)})
    /\ pushed' = pushed (+) SetToBag({Record(id, kind)})

\* the handler (or failedRequestHandler) returned: the crawler is idle again
RequestDone ==
    /\ cur' = None
    /\ hpc' = "idle"

\* a crawler that, the retries used up, queues the request anew instead of giving
\* it to failedRequestHandler
crawlerErrorHandler_queuesAnew(r, rest) ==
    /\ queue' = rest \cup {[r EXCEPT !.retryCount =
                                IF @ < maxRequestRetries THEN @ + 1 ELSE 0]}
    /\ cur' = None
    /\ hpc' = "idle"

\* crawler: an attempt of request r threw; rest is the queue without r
crawlerErrorHandler(r, rest) ==
    IF r.retryCount < maxRequestRetries
    THEN /\ queue' = rest \cup {[r EXCEPT !.retryCount = @ + 1]}
         /\ cur' = None
         /\ hpc' = "idle"
    ELSE /\ queue' = rest
         /\ cur' = Some(r)
         /\ hpc' = "failedPush"

\* a catch that gives the request up after the retries and writes nothing
catch_dropsAfterRetries(r, rest) ==
    IF r.retryCount >= 2
    THEN /\ queue' = rest
         /\ RequestDone
    ELSE crawlerErrorHandler(r, rest)

\* requestHandler catch: request.retryCount >= 2 ? save partial data : throw error
catch(r, rest) ==
    IF r.retryCount >= 2
    THEN /\ queue' = rest
         /\ cur' = Some(r)
         /\ hpc' = "pushPartial"
    ELSE crawlerErrorHandler(r, rest)

\* stateManager.initialize(searchParams, maxItems)
Initialize ==
    /\ pc = "init"
    /\ initialize(input.searchParams, input.maxItems)
    /\ lastCheckpoint' = IF isResumed' THEN lastCheckpoint ELSE None
    /\ startTotal' =
           Some([q |-> input.searchParams,
                 n |-> state'.totalProcessed,
                 resumed |-> isResumed',
                 before |-> IF startTotal # None /\ The(startTotal).q = input.searchParams
                            THEN Some(The(startTotal).n) ELSE None])
    /\ pc' = "search"
    /\ UNCHANGED <<kvDump, dataset, pushed, input, profiles, remainingProfiles,
                   batchIndex, totalProcessed, queue, cur, hpc, restarts, sameAsPrev,
                   smVars, crashedAfterSearch>>

\* initialize: Actor.getValue / Actor.setValue throws -> critical error, exit code 1
InitializeFail ==
    /\ pc = "init"
    /\ pc' = "failed"
    /\ crashedAfterSearch' = FALSE
    /\ UNCHANGED <<state, kvState, isResumed, kvDump, dataset, pushed, input, profiles,
                   remainingProfiles, batchIndex, totalProcessed, queue, cur, hpc,
                   restarts, sameAsPrev, smVars, lastCheckpoint, startTotal>>

\* cachedProfiles && cachedProfiles.length > 0 && isResumed
UseCache == kvDump # None /\ Len(The(kvDump)) > 0 /\ isResumed

\* stage 1, cached search results
SearchCached ==
    /\ pc = "search"
    /\ UseCache
    /\ profiles' = The(kvDump)
    /\ pc' = "filter"
    /\ crashedAfterSearch' = FALSE
    /\ UNCHANGED <<state, kvState, isResumed, kvDump, dataset, pushed, input,
                   remainingProfiles, batchIndex, totalProcessed, queue, cur, hpc,
                   restarts, sameAsPrev, smVars, lastCheckpoint, startTotal>>

\* a stage 1 that searches and writes the cache whatever the cache holds
SearchFresh_overCache ==
    /\ pc = "search"
    /\ \E found \in SearchResults(input.maxItems) :
        /\ profiles' = found
        /\ kvDump' = Some(found)
    /\ pc' = "filter"
    /\ crashedAfterSearch' = FALSE
    /\ UNCHANGED <<state, kvState, isResumed, dataset, pushed, input,
                   remainingProfiles, batchIndex, totalProcessed, queue, cur, hpc,
                   restarts, sameAsPrev, smVars, lastCheckpoint, startTotal>>

\* stage 1, searchProfiles and Actor.setValue('SEARCH_DUMP', profiles)
SearchFresh ==
    /\ pc = "search"
    /\ ~UseCache
    /\ \E found \in SearchResults(input.maxItems) :
        /\ profiles' = found
        /\ kvDump' = Some(found)
    /\ pc' = "filter"
    /\ crashedAfterSearch' = FALSE
    /\ UNCHANGED <<state, kvState, isResumed, dataset, pushed, input,
                   remainingProfiles, batchIndex, totalProcessed, queue, cur, hpc,
                   restarts, sameAsPrev, smVars, lastCheckpoint, startTotal>>

\* stage 1, catch: Actor.exit({ exitCode: 1 })
SearchFail ==
    /\ pc = "search"
    /\ pc' = "failed"
    /\ crashedAfterSearch' = FALSE
    /\ UNCHANGED <<state, kvState, isResumed, kvDump, dataset, pushed, input, profiles,
                   remainingProfiles, batchIndex, totalProcessed, queue, cur, hpc,
                   restarts, sameAsPrev, smVars, lastCheckpoint, startTotal>>

\* filter out already processed profiles; exit when nothing remains
Filter ==
    /\ pc = "filter"
    /\ LET processedIds == getProcessedIds
           remaining == SelectSeq(profiles, LAMBDA p : p \notin processedIds)
       IN /\ remainingProfiles' = remaining
          /\ pc' = IF Len(remaining) = 0 THEN "done" ELSE "batch"
    /\ batchIndex' = 0
    /\ totalProcessed' = 0
    /\ UNCHANGED <<state, kvState, isResumed, kvDump, dataset, pushed, input, profiles,
                   queue, cur, hpc, restarts, sameAsPrev, smVars, histVars>>

\* the profiles of the batches this process has run: their requests are handled
handledRequests == Range(SubSeq(remainingProfiles, 1, batchIndex * BATCH_SIZE))

\* an addRequests into a request queue that has no memory of handled requests
addRequests_forgetsHandled(requests, handled) ==
    {[id |-> id, retryCount |-> 0] : id \in Range(requests)}

\* crawler.addRequests(requests): no crawler is given a queue of its own, so all of
\* them open the default request queue of the run; it keeps one request per
\* uniqueKey (the url, one per person id) and does not run a handled request again
addRequests(requests, handled) ==
    {[id |-> id, retryCount |-> 0] : id \in Range(requests) \ handled}

\* batch loop: new PlaywrightCrawler, crawler.addRequests(requests), crawler.run()
BatchStart ==
    /\ pc = "batch"
    /\ batchIndex < NumBatches
    /\ queue' = addRequests(batchProfiles, handledRequests)
    /\ cur' = None
    /\ hpc' = "idle"
    /\ pc' = "crawl"
    /\ UNCHANGED <<state, kvState, isResumed, kvDump, dataset, pushed, input, profiles,
                   remainingProfiles, batchIndex, totalProcessed, restarts, sameAsPrev,
                   smVars, histVars>>

\* crawler: navigation of a queued request fails (timeout, network) before the handler
NavigateFail ==
    /\ pc = "crawl"
    /\ cur = None
    /\ \E r \in queue :
        /\ outcome[r.id] # "ok"
        /\ crawlerErrorHandler(r, queue \ {r})
    /\ UNCHANGED <<state, kvState, isResumed, kvDump, dataset, pushed, pc, input,
                   profiles, remainingProfiles, batchIndex, totalProcessed, restarts,
                   sameAsPrev, smVars, histVars>>

\* requestHandler: the double-check finds the id processed and returns
HandlerSkip ==
    /\ pc = "crawl"
    /\ cur = None
    /\ \E r \in queue :
        /\ isProcessed(r.id)
        /\ queue' = queue \ {r}
        /\ RequestDone
    /\ UNCHANGED <<state, kvState, isResumed, kvDump, dataset, pushed, pc, input,
                   profiles, remainingProfiles, batchIndex, totalProcessed, restarts,
                   sameAsPrev, smVars, histVars>>

\* requestHandler: not processed, extractProfileDetails succeeded (OCR is silent)
ExtractOk ==
    /\ pc = "crawl"
    /\ cur = None
    /\ \E r \in queue :
        /\ ~isProcessed(r.id)
        /\ outcome[r.id] # "fails"
        /\ queue' = queue \ {r}
        /\ cur' = Some(r)
        /\ hpc' = "push"
    /\ UNCHANGED <<state, kvState, isResumed, kvDump, dataset, pushed, pc, input,
                   profiles, remainingProfiles, batchIndex, totalProcessed, restarts,
                   sameAsPrev, smVars, histVars>>

\* requestHandler: not processed, !result.success -> throw, caught by the catch
ExtractFail ==
    /\ pc = "crawl"
    /\ cur = None
    /\ \E r \in queue :
        /\ ~isProcessed(r.id)
        /\ outcome[r.id] # "ok"
        /\ catch(r, queue \ {r})
    /\ UNCHANGED <<state, kvState, isResumed, kvDump, dataset, pushed, pc, input,
                   profiles, remainingProfiles, batchIndex, totalProcessed, restarts,
                   sameAsPrev, smVars, histVars>>

\* requestHandler: pushData(enrichedProfile) resolved, markProcessed, totalProcessed++,
\* periodic checkpoint test (no await between them)
PushComplete ==
    /\ pc = "crawl"
    /\ hpc = "push"
    /\ pushData(The(cur).id, "complete")
    /\ state' = markProcessed(The(cur).id)
    /\ totalProcessed' = totalProcessed + 1
    /\ IF totalProcessed' % CHECKPOINT_INTERVAL = 0
       THEN /\ hpc' = "checkpoint"
            /\ cur' = cur
       ELSE RequestDone
    /\ UNCHANGED <<kvState, isResumed, kvDump, pc, input, profiles, remainingProfiles,
                   batchIndex, queue, restarts, sameAsPrev, smVars, histVars>>

\* a handler that marks the id before the write, and the write throws
PushCompleteFail_markedFirst ==
    /\ pc = "crawl"
    /\ hpc = "push"
    /\ state' = markProcessed(The(cur).id)
    /\ catch(The(cur), queue)
    /\ UNCHANGED <<kvState, isResumed, kvDump, dataset, pushed, pc, input, profiles,
                   remainingProfiles, batchIndex, totalProcessed, restarts, sameAsPrev,
                   smVars, histVars>>

\* requestHandler: Actor.pushData(enrichedProfile) threw
PushCompleteFail ==
    /\ pc = "crawl"
    /\ hpc = "push"
    /\ catch(The(cur), queue)
    /\ UNCHANGED <<state, kvState, isResumed, kvDump, dataset, pushed, pc, input,
                   profiles, remainingProfiles, batchIndex, totalProcessed, restarts,
                   sameAsPrev, smVars, histVars>>

\* requestHandler: await stateManager.saveCheckpoint() resolved
PeriodicCheckpoint ==
    /\ pc = "crawl"
    /\ hpc = "checkpoint"
    /\ saveCheckpoint
    /\ lastCheckpoint' = kvState'
    /\ RequestDone
    /\ UNCHANGED <<isResumed, kvDump, dataset, pushed, pc, input, profiles,
                   remainingProfiles, batchIndex, totalProcessed, queue, restarts,
                   sameAsPrev, smVars, crashedAfterSearch, startTotal>>

\* requestHandler: saveCheckpoint threw in Actor.setValue (nothing persisted)
PeriodicCheckpointFail ==
    /\ pc = "crawl"
    /\ hpc = "checkpoint"
    /\ catch(The(cur), queue)
    /\ UNCHANGED <<state, kvState, isResumed, kvDump, dataset, pushed, pc, input,
                   profiles, remainingProfiles, batchIndex, totalProcessed, restarts,
                   sameAsPrev, smVars, histVars>>

\* requestHandler: saveCheckpoint persisted the snapshot, then openDataset / getInfo threw
PeriodicCheckpointInfoFail ==
    /\ pc = "crawl"
    /\ hpc = "checkpoint"
    /\ saveCheckpoint
    /\ catch(The(cur), queue)
    /\ UNCHANGED <<isResumed, kvDump, dataset, pushed, pc, input, profiles,
                   remainingProfiles, batchIndex, totalProcessed, restarts, sameAsPrev,
                   smVars, histVars>>

\* requestHandler catch: pushData(partialData) resolved, markProcessed, totalProcessed++
PushPartial ==
    /\ pc = "crawl"
    /\ hpc = "pushPartial"
    /\ pushData(The(cur).id, "partial")
    /\ state' = markProcessed(The(cur).id)
    /\ totalProcessed' = totalProcessed + 1
    /\ RequestDone
    /\ UNCHANGED <<kvState, isResumed, kvDump, pc, input, profiles, remainingProfiles,
                   batchIndex, queue, restarts, sameAsPrev, smVars, histVars>>

\* requestHandler catch: Actor.pushData(partialData) threw out of the handler
PushPartialFail ==
    /\ pc = "crawl"
    /\ hpc = "pushPartial"
    /\ crawlerErrorHandler(The(cur), queue)
    /\ UNCHANGED <<state, kvState, isResumed, kvDump, dataset, pushed, pc, input,
                   profiles, remainingProfiles, batchIndex, totalProcessed, restarts,
                   sameAsPrev, smVars, histVars>>

\* failedRequestHandler: pushData(failedData) resolved, markProcessed, totalProcessed++
FailedPush ==
    /\ pc = "crawl"
    /\ hpc = "failedPush"
    /\ pushData(The(cur).id, "failed")
    /\ state' = markProcessed(The(cur).id)
    /\ totalProcessed' = totalProcessed + 1
    /\ RequestDone
    /\ UNCHANGED <<kvState, isResumed, kvDump, pc, input, profiles, remainingProfiles,
                   batchIndex, queue, restarts, sameAsPrev, smVars, histVars>>

\* the memory of a process that is gone
LostMemory ==
    /\ state' = ConstructorState
    /\ isResumed' = FALSE
    /\ profiles' = <<>>
    /\ remainingProfiles' = <<>>
    /\ batchIndex' = 0
    /\ totalProcessed' = 0
    /\ queue' = {}
    /\ cur' = None
    /\ hpc' = "idle"

\* main catch (critical error): Actor.exit({ exitCode: 1 })
ExitFailure ==
    /\ pc' = "failed"
    /\ LostMemory
    /\ crashedAfterSearch' = FALSE
    /\ UNCHANGED <<kvDump, dataset, pushed, input, restarts, sameAsPrev, smVars,
                   lastCheckpoint, startTotal>>

\* failedRequestHandler: Actor.pushData(failedData) threw; crawler.run() rejects
FailedPushFail ==
    /\ pc = "crawl"
    /\ hpc = "failedPush"
    /\ ExitFailure
    /\ UNCHANGED kvState

\* a crawler.run() that resolves while requests of the batch are still queued
CrawlerDone_beforeQueueIsEmpty ==
    /\ pc = "crawl"
    /\ cur = None
    /\ pc' = "batchCheckpoint"
    /\ UNCHANGED <<state, kvState, isResumed, kvDump, dataset, pushed, input, profiles,
                   remainingProfiles, batchIndex, totalProcessed, queue, cur, hpc,
                   restarts, sameAsPrev, smVars, histVars>>

\* crawler.run() resolved: no request pending or in progress
CrawlerDone ==
    /\ pc = "crawl"
    /\ cur = None
    /\ queue = {}
    /\ pc' = "batchCheckpoint"
    /\ UNCHANGED <<state, kvState, isResumed, kvDump, dataset, pushed, input, profiles,
                   remainingProfiles, batchIndex, totalProcessed, queue, cur, hpc,
                   restarts, sameAsPrev, smVars, histVars>>

\* an end-of-batch checkpoint that is saved only at a multiple of the interval
BatchCheckpoint_onlyAtInterval ==
    /\ pc = "batchCheckpoint"
    /\ IF state.totalProcessed % CHECKPOINT_INTERVAL = 0
       THEN saveCheckpoint /\ lastCheckpoint' = kvState'
       ELSE UNCHANGED <<state, kvState, lastCheckpoint>>
    /\ batchIndex' = batchIndex + 1
    /\ pc' = "batch"
    /\ UNCHANGED <<isResumed, kvDump, dataset, pushed, input, profiles,
                   remainingProfiles, totalProcessed, queue, cur, hpc, restarts,
                   sameAsPrev, smVars, crashedAfterSearch, startTotal>>

\* save checkpoint after each batch, then the next iteration of the loop
BatchCheckpoint ==
    /\ pc = "batchCheckpoint"
    /\ saveCheckpoint
    /\ lastCheckpoint' = kvState'
    /\ batchIndex' = batchIndex + 1
    /\ pc' = "batch"
    /\ UNCHANGED <<isResumed, kvDump, dataset, pushed, input, profiles,
                   remainingProfiles, totalProcessed, queue, cur, hpc, restarts,
                   sameAsPrev, smVars, crashedAfterSearch, startTotal>>

\* end-of-batch saveCheckpoint threw in Actor.setValue -> critical error
BatchCheckpointFail ==
    /\ pc = "batchCheckpoint"
    /\ ExitFailure
    /\ UNCHANGED kvState

\* end-of-batch saveCheckpoint persisted, then openDataset / getInfo threw
BatchCheckpointInfoFail ==
    /\ pc = "batchCheckpoint"
    /\ kvState' = Some(stateToSave)
    /\ ExitFailure

\* the loop condition fails: terminateWorker, final summary
Summary ==
    /\ pc = "batch"
    /\ ~(batchIndex < NumBatches)
    /\ pc' = "finalize"
    /\ UNCHANGED <<state, kvState, isResumed, kvDump, dataset, pushed, input, profiles,
                   remainingProfiles, batchIndex, totalProcessed, queue, cur, hpc,
                   restarts, sameAsPrev, smVars, histVars>>

\* final summary: Actor.openDataset / getInfo threw -> critical error
SummaryFail ==
    /\ pc = "batch"
    /\ ~(batchIndex < NumBatches)
    /\ ExitFailure
    /\ UNCHANGED kvState

\* await stateManager.finalize()
Finalize ==
    /\ pc = "finalize"
    /\ finalize
    /\ lastCheckpoint' = None
    /\ pc' = "exit"
    /\ UNCHANGED <<isResumed, kvDump, dataset, pushed, input, profiles,
                   remainingProfiles, batchIndex, totalProcessed, queue, cur, hpc,
                   restarts, sameAsPrev, smVars, crashedAfterSearch, startTotal>>

\* await Actor.exit() after finalize: the process ends with exit code 0
Exit ==
    /\ pc = "exit"
    /\ pc' = "done"
    /\ UNCHANGED <<state, kvState, isResumed, kvDump, dataset, pushed, input, profiles,
                   remainingProfiles, batchIndex, totalProcessed, queue, cur, hpc,
                   restarts, sameAsPrev, smVars, histVars>>

\* a finalize that cleared the snapshot before the critical error
FinalizeFail_snapshotCleared ==
    /\ pc = "finalize"
    /\ ExitFailure
    /\ kvState' = None

\* finalize: Actor.setValue threw -> critical error
FinalizeFail ==
    /\ pc = "finalize"
    /\ ExitFailure
    /\ UNCHANGED kvState

\* the process is terminated from outside, at any point of a run
Crash ==
    /\ pc \in {"init", "search", "filter", "batch", "crawl", "batchCheckpoint",
               "finalize", "exit"}
    /\ pc' = "crashed"
    /\ LostMemory
    /\ crashedAfterSearch' = (/\ pc = "filter" \/ (pc = "batch" /\ batchIndex = 0)
                              /\ kvDump # None
                              /\ Len(The(kvDump)) > 0)
    /\ UNCHANGED <<kvState, kvDump, dataset, pushed, input, restarts, sameAsPrev,
                   smVars, lastCheckpoint, startTotal>>

\* a new process of the same run: Actor.init, getInput, openDataset, new StateManager;
\* q and m are its input, limit bounds the number of restarts
RestartWith(q, m, limit) ==
    /\ pc \in {"crashed", "failed"}
    /\ restarts < limit
    /\ restarts' = restarts + 1
    /\ input' = [searchParams |-> q, maxItems |-> m]
    /\ sameAsPrev' = (q = input.searchParams)
    /\ pushed' = EmptyBag
    /\ LostMemory
    /\ pc' = "init"
    /\ UNCHANGED <<kvState, kvDump, dataset, smVars, histVars>>

\* the run is started again, with any input
Restart ==
    \E q \in MainQueries, m \in MaxItemsChoices : RestartWith(q, m, MaxRestarts)

\* the run is started again with the input it had (resurrection of the same run)
RestartSame == RestartWith(input.searchParams, input.maxItems, MaxRestarts + 1)

\* the first process of a run starts: empty stores, empty dataset; its maxItems is
\* one of maxItemsChoices
InitLifetime(maxItemsChoices) ==
    /\ state = ConstructorState
    /\ kvState = None
    /\ kvDump = None
    /\ dataset = EmptyBag
    /\ pushed = EmptyBag
    /\ pc = "init"
    /\ input \in [searchParams : MainQueries, maxItems : maxItemsChoices]
    /\ isResumed = FALSE
    /\ profiles = <<>>
    /\ remainingProfiles = <<>>
    /\ batchIndex = 0
    /\ totalProcessed = 0
    /\ queue = {}
    /\ cur = None
    /\ hpc = "idle"
    /\ restarts = 0
    /\ sameAsPrev = FALSE
    /\ lastCall = NoCall
    /\ savedFrom = None
    /\ lastCheckpoint = None
    /\ crashedAfterSearch = FALSE
    /\ startTotal = None
    /\ sp = NoSearch
    /\ wire = NoWire
    /\ text = NoText
    /\ late = {}

\* the first process of a run, with a maxItems main.js is meant for
InitMain == InitLifetime(MaxItemsChoices)

Init ==
    /\ InitMain
    /\ outcome = AnyOutcome

Next ==
    \/ Initialize
    \/ InitializeFail
    \/ SearchCached
    \/ SearchFresh
    \/ SearchFail
    \/ Filter
    \/ BatchStart
    \/ NavigateFail
    \/ HandlerSkip
    \/ ExtractOk
    \/ ExtractFail
    \/ PushComplete
    \/ PushCompleteFail
    \/ PeriodicCheckpoint
    \/ PeriodicCheckpointFail
    \/ PeriodicCheckpointInfoFail
    \/ PushPartial
    \/ PushPartialFail
    \/ FailedPush
    \/ FailedPushFail
    \/ CrawlerDone
    \/ BatchCheckpoint
    \/ BatchCheckpointFail
    \/ BatchCheckpointInfoFail
    \/ Summary
    \/ SummaryFail
    \/ Finalize
    \/ Exit
    \/ FinalizeFail
    \/ Crash
    \/ Restart

Spec == Init /\ [][Next]_vars

----------------------------------------------------------------------------
(* SpecRestarts: a run interrupted from outside and started again with the    *)
(* same input, one process lifetime more than in Spec; the store, the sink    *)
(* and the navigation answer every call, the extraction of a page may fail    *)

NextRestarts ==
    \/ Initialize
    \/ SearchCached
    \/ SearchFresh
    \/ Filter
    \/ BatchStart
    \/ ExtractOk
    \/ ExtractFail
    \/ PushComplete
    \/ PeriodicCheckpoint
    \/ PushPartial
    \/ CrawlerDone
    \/ BatchCheckpoint
    \/ Summary
    \/ Finalize
    \/ Exit
    \/ Crash
    \/ RestartSame

SpecRestarts == Init /\ [][NextRestarts]_vars

----------------------------------------------------------------------------
(* SpecResume: a run interrupted from outside, or ended by a failed search,    *)
(* and started again with any query and any maxItems; the store and the sink   *)
(* answer every call, the extraction of a page may fail                        *)

NextResume ==
    \/ Initialize
    \/ SearchCached
    \/ SearchFresh
    \/ SearchFail
    \/ Filter
    \/ BatchStart
    \/ ExtractOk
    \/ ExtractFail
    \/ PushComplete
    \/ PeriodicCheckpoint
    \/ PushPartial
    \/ CrawlerDone
    \/ BatchCheckpoint
    \/ Summary
    \/ Finalize
    \/ Exit
    \/ Crash
    \/ Restart

SpecResume == Init /\ [][NextResume]_vars

----------------------------------------------------------------------------
(* SpecRun: one uninterrupted process lifetime in which the store and the sink *)
(* answer every call and the enrichment of each id behaves as outcome says;    *)
(* the process goes on as long as it has a step to take                        *)

InitRun ==
    /\ InitMain
    /\ outcome \in [Ids -> Outcomes]

NextRun ==
    \/ Initialize
    \/ SearchFresh
    \/ Filter
    \/ BatchStart
    \/ NavigateFail
    \/ ExtractOk
    \/ ExtractFail
    \/ PushComplete
    \/ PeriodicCheckpoint
    \/ PushPartial
    \/ FailedPush
    \/ CrawlerDone
    \/ BatchCheckpoint
    \/ Summary
    \/ Finalize
    \/ Exit

SpecRun == InitRun /\ [][NextRun]_vars /\ WF_vars(NextRun)

----------------------------------------------------------------------------
(* SpecSearch: one uninterrupted process lifetime whose stage 1 runs            *)
(* searchProfiles page by page, against a search service that throws, answers  *)
(* with an empty page or answers with people; the store and the sink answer    *)
(* every call, the navigation and the extraction of a page may fail            *)

\* what the steps inside searchProfiles leave alone
aroundSearch ==
    <<state, kvState, isResumed, kvDump, dataset, pushed, pc, input, profiles,
      remainingProfiles, batchIndex, totalProcessed, queue, cur, hpc, restarts,
      sameAsPrev, lastCall, savedFrom, outcome, histVars, text, late>>

\* the maxItems a run can be given: inside and outside of 1..500
SearchMaxItems == {-1, 0, 1, MaxProfiles, 501}

\* main.js:64-69: no usable cache, searchProfiles is called
SearchCall ==
    /\ pc = "search"
    /\ ~UseCache
    /\ sp.pc = "idle"
    /\ sp' = searchProfiles(input.maxItems)
    /\ wire' = NoWire
    /\ UNCHANGED aroundSearch

\* while (profiles.length < maxItems): build the payload and call withRetry, or
\* leave the loop
WhileTest ==
    /\ sp.pc = "while"
    /\ IF Len(sp.profiles) < sp.maxItems
       THEN /\ sp' = [sp EXCEPT !.pc = "fetch", !.i = 0]
            /\ wire' = [wire EXCEPT !.pages = @ + 1, !.attempts = 0, !.waits = <<>>]
       ELSE /\ sp' = [sp EXCEPT !.pc = "return"]
            /\ wire' = wire
    /\ UNCHANGED aroundSearch

\* a withRetry that starts over after its last attempt and never throws to its caller
FetchThrows_neverGivesUp ==
    /\ sp.pc = "fetch"
    /\ sp' = [sp EXCEPT !.i = (sp.i + 1) % maxRetries]
    /\ wire' = [wire EXCEPT !.last = "threw"]
    /\ UNCHANGED aroundSearch

\* withRetry, attempt i: fetch rejects or the response is not ok
FetchThrows ==
    /\ sp.pc = "fetch"
    /\ sp' = withRetryCatch(sp)
    /\ wire' = [wire EXCEPT !.attempts = @ + 1,
                            !.waits = @ \o sleptAfter(sp.i),
                            !.exhausted = (sp'.pc # "fetch"),
                            !.got = IF sp'.pc # "fetch" THEN sp.profiles ELSE @,
                            !.last = "threw"]
    /\ UNCHANGED aroundSearch

\* searchProfiles, lines 86-145: what it does with the data of a response
onResponse(f, data) ==
    IF isEmptyPage(data) THEN emptyPage(f, trackTotal(f, data))
    ELSE fullPage(f, trackTotal(f, data), The(data.People))

\* withRetry, attempt i: the response is ok and response.json() gives data
FetchResponds ==
    /\ sp.pc = "fetch"
    /\ \E data \in Responses :
        LET n == IF isEmptyPage(data) THEN 0 ELSE Len(The(data.People))
        IN /\ wire.served + n <= MaxFound
           /\ sp' = onResponse(sp, data)
           /\ wire' = [wire EXCEPT
                  !.attempts = @ + 1,
                  !.served = @ + n,
                  !.emptyRun = IF n = 0 THEN @ + 1 ELSE 0,
                  !.first = IF @ # "none" THEN @
                            ELSE IF data.Count = 0 /\ n = 0 THEN "zero" ELSE "other",
                  !.last = IF n = 0 THEN "empty" ELSE "page"]
    /\ UNCHANGED aroundSearch

\* main.js:64-80: searchProfiles returned profiles.slice(0, maxItems), the list is
\* written to SEARCH_DUMP; or it threw and the catch exits with code 1
SearchReturn ==
    /\ pc = "search"
    /\ sp.pc \in {"return", "thrown"}
    /\ IF sp.pc = "return"
       THEN /\ profiles' = slice(sp.profiles, sp.maxItems)
            /\ kvDump' = Some(profiles')
            /\ pc' = "filter"
            /\ sp' = [NoSearch EXCEPT !.pc = "returned", !.maxItems = sp.maxItems]
       ELSE /\ pc' = "failed"
            /\ sp' = [NoSearch EXCEPT !.pc = "failed", !.maxItems = sp.maxItems]
            /\ UNCHANGED <<profiles, kvDump>>
    /\ wire' = [NoWire EXCEPT !.exhausted = wire.exhausted, !.got = wire.got,
                              !.served = wire.served]
    /\ crashedAfterSearch' = FALSE
    /\ UNCHANGED <<state, kvState, isResumed, dataset, pushed, input,
                   remainingProfiles, batchIndex, totalProcessed, queue, cur, hpc,
                   restarts, sameAsPrev, lastCall, savedFrom, outcome, text, late,
                   lastCheckpoint, startTotal>>

InitSearch ==
    /\ InitLifetime(SearchMaxItems)
    /\ outcome = AnyOutcome

NextSearch ==
    \/ Initialize
    \/ SearchCall
    \/ WhileTest
    \/ FetchThrows
    \/ FetchResponds
    \/ SearchReturn
    \/ Filter
    \/ BatchStart
    \/ NavigateFail
    \/ ExtractOk
    \/ ExtractFail
    \/ PushComplete
    \/ PeriodicCheckpoint
    \/ PushPartial
    \/ FailedPush
    \/ CrawlerDone
    \/ BatchCheckpoint
    \/ Summary
    \/ Finalize
    \/ Exit

SpecSearch == InitSearch /\ [][NextSearch]_vars

----------------------------------------------------------------------------
(* SpecPages: searchProfiles against a service that answers every request     *)
(* with a full page of pageSize people                                         *)

\* the largest maxItems of the run input
MaxPagedItems == 25

\* the people of the page at an offset
PageAt(offset) == [k \in 1..pageSize |-> 1 + ((offset + k) % MaxProfiles)]

\* withRetry, first attempt: the response is ok and carries pageSize people
FetchFullPage ==
    /\ sp.pc = "fetch"
    /\ \E count \in Counts :
        sp' = onResponse(sp, [Count |-> count, People |-> Some(PageAt(sp.offset))])
    /\ wire' = [wire EXCEPT !.attempts = @ + 1,
                            !.served = @ + pageSize,
                            !.emptyRun = 0,
                            !.first = IF @ # "none" THEN @ ELSE "other",
                            !.last = "page"]
    /\ UNCHANGED aroundSearch

InitPages ==
    /\ InitLifetime(0..MaxPagedItems)
    /\ outcome = AnyOutcome

NextPages ==
    \/ Initialize
    \/ SearchCall
    \/ WhileTest
    \/ FetchFullPage
    \/ SearchReturn

SpecPages == InitPages /\ [][NextPages]_vars

----------------------------------------------------------------------------
(* SpecLoop: the loop of searchProfiles against a service that may answer     *)
(* every request with any page, for as long as it is asked; every fetch        *)
(* settles, and a step that can be taken is taken                              *)

\* the largest maxItems of the run input
MaxLoopItems == 2

\* withRetry, attempt i: the response is ok and response.json() gives any data
FetchRespondsAny ==
    /\ sp.pc = "fetch"
    /\ \E data \in Responses :
        LET n == IF isEmptyPage(data) THEN 0 ELSE Len(The(data.People))
        IN /\ sp' = onResponse(sp, data)
           /\ wire' = [wire EXCEPT
                  !.attempts = @ + 1,
                  !.served = @ + n,
                  !.emptyRun = IF n = 0 THEN @ + 1 ELSE 0,
                  !.first = IF @ # "none" THEN @
                            ELSE IF data.Count = 0 /\ n = 0 THEN "zero" ELSE "other",
                  !.last = IF n = 0 THEN "empty" ELSE "page"]
    /\ UNCHANGED aroundSearch

InitLoop ==
    /\ InitLifetime(-1..MaxLoopItems)
    /\ outcome = AnyOutcome

NextLoop ==
    \/ Initialize
    \/ SearchCall
    \/ WhileTest
    \/ FetchThrows
    \/ FetchRespondsAny
    \/ SearchReturn

SpecLoop == InitLoop /\ [][NextLoop]_vars /\ WF_vars(NextLoop)

----------------------------------------------------------------------------
(* SpecSanitize: the payloads searchProfiles builds from the free-text inputs   *)
(* of a run                                                                    *)

\* the strings of at most n code units of Alphabet
Texts(n) == UNION {[1..k -> Alphabet] : k \in 0..n}

\* what a run input can hold in the place of a free-text field besides a long text
OtherInputs == {Undefined, ANumber, Str(<<>>), Str(<<97>>)}

\* main.js:32-37: const { searchKeywords = '', department = '', institution = '' }
WithDefault(v) == IF v = Undefined THEN Str(<<>>) ELSE v

\* searchProfiles, lines 39-64, in the turn of the loop for offset
BuildPayload ==
    /\ \E offset \in {1, 1 + pageSize} :
        /\ IF offset = 1 THEN text.payload = None
           ELSE text.payload # None /\ The(text.payload).Offset = offset - pageSize
        /\ text' = [text EXCEPT !.payload =
                        Some(payload(WithDefault(text.keyword),
                                     WithDefault(text.department),
                                     WithDefault(text.institution), offset))]
    /\ UNCHANGED <<state, kvState, isResumed, mainVars_butText>>

InitSanitize ==
    /\ InitUnit
    /\ \E s \in Texts(MaxLen), a, b \in OtherInputs :
        text \in {[NoText EXCEPT !.keyword = Str(s), !.department = a, !.institution = b],
                  [NoText EXCEPT !.keyword = a, !.department = Str(s), !.institution = b],
                  [NoText EXCEPT !.keyword = a, !.department = b, !.institution = Str(s)]}

NextSanitize == BuildPayload

SpecSanitize == InitSanitize /\ [][NextSanitize]_vars

----------------------------------------------------------------------------
(* SpecCheckpoints: one process lifetime of main.js on an empty store, in     *)
(* which a checkpoint write may fail (Actor.setValue or getInfo throws) and    *)
(* the navigation and the extraction of a request may fail                     *)

NextCheckpoints ==
    \/ Initialize
    \/ SearchFresh
    \/ Filter
    \/ BatchStart
    \/ NavigateFail
    \/ HandlerSkip
    \/ ExtractOk
    \/ ExtractFail
    \/ PushComplete
    \/ PeriodicCheckpoint
    \/ PeriodicCheckpointFail
    \/ PeriodicCheckpointInfoFail
    \/ PushPartial
    \/ FailedPush
    \/ CrawlerDone
    \/ BatchCheckpoint
    \/ BatchCheckpointFail
    \/ BatchCheckpointInfoFail
    \/ Summary
    \/ Finalize
    \/ Exit

SpecCheckpoints == Init /\ [][NextCheckpoints]_vars

----------------------------------------------------------------------------
(* SpecTimeout: one process lifetime of main.js in which a call of the handler *)
(* may take longer than requestHandlerTimeoutSecs. The crawler then treats the *)
(* request as failed (retry or failedRequestHandler); the handler is an async  *)
(* function that nothing cancels, so its call goes on from the await it was at *)

\* bound of the model: the handler calls that have timed out and still run
MaxLate == 1

\* what neither the crawler's timer nor a handler call that timed out writes
besideHandlers == <<isResumed, kvDump, pc, input, profiles, remainingProfiles,
                    batchIndex, restarts, sameAsPrev, lastCall, savedFrom, outcome,
                    searchVars, crashedAfterSearch, startTotal>>

\* requestHandlerTimeoutSecs: 120 s have passed while the handler awaits pushData
\* or saveCheckpoint; the crawler's error handling takes the request
HandlerTimeout ==
    /\ pc = "crawl"
    /\ cur # None
    /\ hpc \in {"push", "checkpoint", "pushPartial"}
    /\ Cardinality(late) < MaxLate
    /\ late' = late \cup {[id |-> The(cur).id, retryCount |-> The(cur).retryCount,
                           at |-> hpc]}
    /\ crawlerErrorHandler(The(cur), queue)
    /\ UNCHANGED <<state, kvState, dataset, pushed, totalProcessed, lastCheckpoint,
                   besideHandlers>>

\* a handler call that timed out: the promise it awaited resolves and it runs on to
\* its next await or to its end (main.js:218-231 and 248-252)
LateHandlerStep ==
    /\ pc \in {"crawl", "batchCheckpoint", "batch", "finalize", "exit"}
    /\ \E z \in late :
        IF z.at = "checkpoint"
        THEN /\ saveCheckpoint
             /\ lastCheckpoint' = kvState'
             /\ late' = late \ {z}
             /\ UNCHANGED <<dataset, pushed, totalProcessed>>
        ELSE /\ pushData(z.id, IF z.at = "push" THEN "complete" ELSE "partial")
             /\ state' = markProcessed(z.id)
             /\ totalProcessed' = totalProcessed + 1
             /\ late' = IF z.at = "push" /\ totalProcessed' % CHECKPOINT_INTERVAL = 0
                        THEN (late \ {z}) \cup {[z EXCEPT !.at = "checkpoint"]}
                        ELSE late \ {z}
             /\ UNCHANGED <<kvState, lastCheckpoint>>
    /\ UNCHANGED <<queue, cur, hpc, besideHandlers>>

NextTimeout ==
    \/ Initialize
    \/ SearchFresh
    \/ Filter
    \/ BatchStart
    \/ NavigateFail
    \/ HandlerSkip
    \/ ExtractOk
    \/ ExtractFail
    \/ PushComplete
    \/ PeriodicCheckpoint
    \/ PushPartial
    \/ FailedPush
    \/ HandlerTimeout
    \/ LateHandlerStep
    \/ CrawlerDone
    \/ BatchCheckpoint
    \/ Summary
    \/ Finalize
    \/ Exit

SpecTimeout == Init /\ [][NextTimeout]_vars

----------------------------------------------------------------------------
(* SpecStats: getStats after a count of markProcessed calls (Tests 8 and 9)    *)

\* how many profiles are marked at most
MaxStatsMarks == 50

\* totalRequested: none, the targets of Tests 8 and 9 (200, 100), 25 and 40
StatsRequested == {0, 25, 40, 100, 200}

\* await stateManager.initialize(searchParams, totalRequested) on an empty store
StatsInitialize ==
    \E m \in StatsRequested :
        /\ lastCall.op = "none"
        /\ initialize(Q0, m)
        /\ lastCall' = [NoCall EXCEPT !.op = "initialize", !.q = Q0, !.m = m,
                                      !.savedState = kvState, !.from = savedFrom]
        /\ UNCHANGED <<savedFrom, mainVars>>

\* for (let i = 1; i <= n; i++) stateManager.markProcessed(i)
StatsMark ==
    /\ lastCall.op # "none"
    /\ state.totalProcessed < MaxStatsMarks
    /\ state' = markProcessed(state.totalProcessed + 1)
    /\ lastCall' = [NoCall EXCEPT !.op = "markProcessed",
                                  !.id = state.totalProcessed + 1]
    /\ UNCHANGED <<kvState, savedFrom, isResumed, mainVars>>

\* const stats = stateManager.getStats()
StatsGet ==
    /\ lastCall.op # "none"
    /\ lastCall' = [NoCall EXCEPT !.op = "getStats", !.stats = Some(getStats)]
    /\ UNCHANGED <<state, kvState, savedFrom, isResumed, mainVars>>

NextStats ==
    \/ StatsInitialize
    \/ StatsMark
    \/ StatsGet

SpecStats == InitSM /\ [][NextStats]_vars

----------------------------------------------------------------------------
(* Properties *)

\* number of records of the bag that carry the id
RecordsOf(bag, id) ==
    CopiesIn(Record(id, "complete"), bag) + CopiesIn(Record(id, "partial"), bag)
        + CopiesIn(Record(id, "failed"), bag)

\* the records that were in the dataset when this process started
priorDataset == dataset (-) pushed

\* C1: within one process lifetime the sink receives at most one record per id
\* (Complete, Partial and failure records counted together).
C1_AtMostOneRecordPerLifetime ==
    \A id \in Ids : RecordsOf(pushed, id) <= 1

\* C2: a process restarted with the same query writes no record for an id that
\* already had a record in the sink when it started.
C2_ResumeReplaysNoOutput ==
    sameAsPrev =>
        \A id \in Ids : RecordsOf(priorDataset, id) > 0 => RecordsOf(pushed, id) = 0

\* C3: an id is marked processed only after a record with that id was accepted by
\* the sink: every marked id has a record in the dataset.
C3_MarkedAfterDurableWrite ==
    \A id \in Range(state.processedPersonIds) : RecordsOf(dataset, id) >= 1

\* C3 witness: ids marked on the Complete path and by failedRequestHandler
C3_Witness ==
    /\ pc = "crawl"
    /\ \E a, b \in Range(state.processedPersonIds) :
        /\ CopiesIn(Record(a, "complete"), pushed) = 1
        /\ CopiesIn(Record(b, "failed"), pushed) = 1

\* C4: totalProcessed equals the number of distinct ids in processedPersonIds in
\* every reachable state of a run.
C4_TotalEqualsSize ==
    state.totalProcessed = SetSize(state.processedPersonIds)

\* C5: when a run completes normally every id of the candidate list has exactly one
\* record in the sink.
C5_ExactlyOneRecordAtCompletion ==
    pc = "done" => \A id \in Range(profiles) : RecordsOf(dataset, id) = 1

\* C6: initialize with a snapshot whose query equals the current one returns true,
\* sets isResumed, adopts the snapshot's totalProcessed and takes the new maxItems
\* as totalRequested.
C6_ResumeAdoptsSnapshot ==
    (/\ lastCall.op = "initialize"
     /\ lastCall.savedState # None
     /\ The(lastCall.savedState).searchParams = Some(lastCall.q))
    => /\ isResumed
       /\ state.isResumed
       /\ state.totalProcessed = The(lastCall.savedState).totalProcessed
       /\ state.totalRequested = lastCall.m

\* C6 witness: a resume with a non-zero count and a maxItems other than the saved one
C6_Witness ==
    /\ lastCall.op = "initialize"
    /\ lastCall.savedState # None
    /\ isResumed
    /\ state.totalProcessed > 0
    /\ The(lastCall.savedState).totalRequested # lastCall.m

\* number of query fields in which two queries differ
FieldsDiffering(a, b) ==
    Cardinality({f \in {"searchKeywords", "department", "institution"} : a[f] # b[f]})

\* C7: initialize resumes iff all three query fields of the snapshot equal the
\* current ones; otherwise it returns false, leaves isResumed false, totalProcessed 0
\* and processedPersonIds empty, and clears the persisted snapshot.
C7_FreshOnAnyDifference ==
    (lastCall.op = "initialize" /\ lastCall.savedState # None)
    => LET same == The(lastCall.savedState).searchParams = Some(lastCall.q)
       IN /\ isResumed <=> same
          /\ ~same => /\ ~state.isResumed
                      /\ state.totalProcessed = 0
                      /\ state.processedPersonIds = <<>>
                      /\ kvState = None

\* C7 witness: a snapshot with ids whose query differs in exactly one field, the
\* differing value being the empty string on one side
C7_Witness ==
    /\ lastCall.op = "initialize"
    /\ lastCall.savedState # None
    /\ The(lastCall.savedState).searchParams # None
    /\ The(lastCall.savedState).totalProcessed > 0
    /\ FieldsDiffering(The(The(lastCall.savedState).searchParams), lastCall.q) = 1
    /\ ~isResumed

\* C8: saveCheckpoint followed by initialize with the same query restores the saved
\* set of ids and the saved totalProcessed.
C8_RoundTrip ==
    (/\ lastCall.op = "initialize"
     /\ lastCall.from # None
     /\ The(lastCall.from).searchParams = Some(lastCall.q))
    => /\ Range(state.processedPersonIds) = Range(The(lastCall.from).processedPersonIds)
       /\ SetSize(state.processedPersonIds) = SetSize(The(lastCall.from).processedPersonIds)
       /\ state.totalProcessed = The(lastCall.from).totalProcessed

\* C8 witness: a round trip of a state with two distinct ids marked
C8_Witness ==
    /\ lastCall.op = "initialize"
    /\ lastCall.from # None
    /\ isResumed
    /\ SetSize(The(lastCall.from).processedPersonIds) >= 2
    /\ The(lastCall.from).totalProcessed = SetSize(The(lastCall.from).processedPersonIds)

\* a snapshot as the tests write it: ids under processedPersonIds, matching count
TestShaped(s) ==
    /\ s.processedIds = None
    /\ s.processedPersonIds # None
    /\ s.totalProcessed = Len(The(s.processedPersonIds))

\* C9: resuming from a snapshot shaped as the tests construct it restores as many
\* ids as the snapshot lists, and isProcessed is true for each of them.
C9_TestSnapshotRestored ==
    (/\ lastCall.op = "initialize"
     /\ lastCall.savedState # None
     /\ TestShaped(The(lastCall.savedState))
     /\ The(lastCall.savedState).searchParams = Some(lastCall.q))
    => LET listed == The(The(lastCall.savedState).processedPersonIds)
       IN /\ SetSize(state.processedPersonIds) = Len(listed)
          /\ \A id \in Range(listed) : isProcessed(id)

\* C10: after a run has ended normally no progress snapshot remains in the store.
C10_NormalEndClearsSnapshot ==
    pc = "done" => kvState = None

\* a step on which Actor.pushData rejected: in the handler's try, in its catch, or
\* in failedRequestHandler
pushDataFailed == PushCompleteFail \/ PushPartialFail \/ FailedPushFail

\* C11: when a write to the output sink fails, the failure propagates and halts the
\* run: the step on which pushData rejects ends the process lifetime in the failure
\* exit, so that no item is enriched and finalize is not called after it.
C11_PushFailureHaltsRun ==
    [][pushDataFailed => pc' = "failed"]_vars

\* positions of main.js from the first batch on
EnrichmentPcs == {"batch", "crawl", "batchCheckpoint", "finalize"}

\* a step that ends the run in the critical error handler after enrichment started
failureAfterEnrichment == pc \in EnrichmentPcs /\ pc' = "failed"

\* C12 (as stated): on every path on which a run ends in failure after enrichment
\* has started, the persisted snapshot is exactly what the last saveCheckpoint that
\* returned normally wrote.
C12_SnapshotOfLastSuccessfulCheckpoint ==
    [][failureAfterEnrichment => kvState' = lastCheckpoint']_vars

\* C12 (amended): the failure exit neither clears nor rewrites the persisted
\* snapshot: it stays as it was, or is the snapshot the failing end-of-batch
\* saveCheckpoint wrote before it threw; a snapshot that is present carries the
\* query of the run, so that a following run with the same query resumes from it.
C12_FailureKeepsWrittenSnapshot ==
    [][failureAfterEnrichment =>
        /\ \/ kvState' = kvState
           \/ pc = "batchCheckpoint" /\ kvState' = Some(stateToSave)
        /\ kvState' # None => _canResume(kvState', input.searchParams)]_vars

\* C12 witness: a run that wrote output has ended in failure, and the snapshot it
\* leaves was written by a saveCheckpoint that did not return
C12_Witness ==
    /\ pc = "failed"
    /\ pushed # EmptyBag
    /\ kvState # None
    /\ kvState # lastCheckpoint

\* a step of the crawl on which markProcessed ran
markedProcessed ==
    /\ pc = "crawl"
    /\ state'.totalProcessed = state.totalProcessed + 1

\* C13: during enrichment saveCheckpoint is called each time the count of ids marked
\* processed reaches a multiple of CHECKPOINT_INTERVAL, whichever path made the mark
\* and whether the run is fresh or resumed: the marking step goes on to the
\* saveCheckpoint call.
C13_CheckpointAtEveryMultiple ==
    [][(markedProcessed /\ state'.totalProcessed % CHECKPOINT_INTERVAL = 0)
           => hpc' = "checkpoint"]_vars

\* C14: after every batch whose crawler run returned, saveCheckpoint is called before
\* the next batch starts and before finalize, whatever the number of ids the batch
\* marked: between batches and at finalize the persisted snapshot is the snapshot of
\* the progress in memory.
C14_CheckpointAfterEveryBatch ==
    (pc \in {"batch", "finalize"} /\ batchIndex > 0) => kvState = Some(stateToSave)

\* C14 witness: a batch has ended at a count that is no multiple of the interval and
\* another batch is about to start
C14_Witness ==
    /\ pc = "batch"
    /\ batchIndex > 0
    /\ batchIndex < NumBatches
    /\ state.totalProcessed % CHECKPOINT_INTERVAL # 0
    /\ kvState = Some(stateToSave)

\* C15: shouldCheckpoint() returns true exactly when totalProcessed is one of N, 2N,
\* 3N, ... for the checkpoint interval N, and false for every other value, including
\* before any id has been marked.
C15_TrueExactlyAtMultiples ==
    lastCall.op = "shouldCheckpoint" =>
        (lastCall.ret <=> \E k \in 1..state.totalProcessed :
                              state.totalProcessed = k * CHECKPOINT_INTERVAL)

\* C16: if the process crashes after the search has returned and the candidate list
\* has been cached, but before any enrichment, the next run with the same query uses
\* the cached list and issues no search request.
C16_CachedListSparesSearch ==
    [][(crashedAfterSearch /\ sameAsPrev) => ~SearchFresh]_vars

\* C17 (as stated): across any sequence of interruptions and restarts with the same
\* query, the totalProcessed observed at the start of each restarted process is at
\* least the one observed at the start of the previous process.
C17_StartTotalNonDecreasing ==
    startTotal # None =>
        \A b \in The(startTotal).before : The(startTotal).n >= b

\* C17 (amended): the same for every restarted process that resumes, that is, finds
\* the snapshot of the run (no earlier process cleared it in finalize).
C17_ResumedStartTotalNonDecreasing ==
    (startTotal # None /\ The(startTotal).resumed) =>
        \A b \in The(startTotal).before : The(startTotal).n >= b

\* C17 witness: the third process of a run resumes with more ids processed than the
\* second, which had resumed with some
C17_Witness ==
    /\ startTotal # None
    /\ The(startTotal).resumed
    /\ \E b \in The(startTotal).before : b > 0 /\ The(startTotal).n > b

\* number of records of the bag with isPartial = true and an error that carry the id:
\* partialData of the handler's catch and failedData of failedRequestHandler
PartialsOf(bag, id) ==
    CopiesIn(Record(id, "partial"), bag) + CopiesIn(Record(id, "failed"), bag)

\* ids with a request pending in the crawler or being handled
inFlight == {r.id : r \in queue \cup cur}

\* the id was given to the crawler of a batch that has started
started(id) ==
    LET upTo == IF pc \in {"crawl", "batchCheckpoint"}
                THEN (batchIndex + 1) * BATCH_SIZE ELSE batchIndex * BATCH_SIZE
    IN \E i \in 1..Len(remainingProfiles) : i <= upTo /\ remainingProfiles[i] = id

\* C18: for an id whose enrichment fails on every attempt, once the retry budget
\* (maxRequestRetries = 2, three attempts) is exhausted exactly one Partial record is
\* written for it and it is marked processed; no further attempt is made for it.
C18_OnePartialAfterRetries ==
    /\ \A r \in queue \cup cur : r.retryCount <= maxRequestRetries
    /\ pc \in EnrichmentPcs =>
        \A id \in Ids :
            outcome[id] = "fails" =>
                /\ PartialsOf(pushed, id) >= 1 => id \notin inFlight
                /\ (started(id) /\ id \notin inFlight) =>
                       /\ PartialsOf(pushed, id) = 1
                       /\ CopiesIn(Record(id, "complete"), pushed) = 0
                       /\ isProcessed(id)

\* C18 witness: two ids that always fail have used up their retries, one in the
\* handler (extraction) and one in the crawler (navigation); the batches are over
C18_Witness ==
    /\ pc = "finalize"
    /\ \E a, b \in Ids :
        /\ outcome[a] = "fails" /\ CopiesIn(Record(a, "partial"), pushed) = 1
        /\ outcome[b] = "fails" /\ CopiesIn(Record(b, "failed"), pushed) = 1
        /\ isProcessed(a) /\ isProcessed(b)

\* C19: a run whose candidate list contains ids that fail enrichment permanently
\* still terminates: no request is attempted beyond the retry budget, every batch
\* ends and the run reaches finalize and exits.
C19_RunTerminates ==
    /\ [](\A r \in queue \cup cur : r.retryCount <= maxRequestRetries)
    /\ <>(pc = "done")

\* C19 witness: a run has exited after finalize although an id of its list failed on
\* every attempt
C19_Witness ==
    /\ pc = "done"
    /\ kvState = None
    /\ \E id \in Range(profiles) :
        /\ outcome[id] = "fails"
        /\ PartialsOf(dataset, id) = 1

\* C20: given a candidate list of K distinct ids and enrichment that succeeds for
\* every id on the first attempt, the output sink receives exactly K Complete records
\* and zero Partial records.
C20_AllCompleteWhenAllSucceed ==
    (pc = "done" /\ \A id \in Range(profiles) : outcome[id] = "ok") =>
        /\ \A id \in Range(profiles) : CopiesIn(Record(id, "complete"), dataset) = 1
        /\ \A id \in Ids : PartialsOf(dataset, id) = 0
        /\ BagCardinality(dataset) = Len(profiles)

\* C20 witness: a run over a list of MaxProfiles ids, all of which succeed, has exited
C20_Witness ==
    /\ pc = "done"
    /\ Len(profiles) = MaxProfiles
    /\ \A id \in Range(profiles) : outcome[id] = "ok"
    /\ BagCardinality(dataset) = MaxProfiles

\* C21: for every maxItems and every sequence of page responses, the list
\* searchProfiles collects never grows beyond maxItems and the list it returns has at
\* most maxItems entries (none when maxItems is below 1)
C21_AtMostMaxItems ==
    LET most == IF sp.maxItems < 0 THEN 0 ELSE sp.maxItems
    IN /\ Len(sp.profiles) <= most
       /\ sp.pc = "returned" => Len(profiles) <= most

\* searchProfiles returned exactly maxItems profiles although the service had sent
\* more people than that
C21_Witness ==
    /\ sp.pc = "returned"
    /\ sp.maxItems >= 1
    /\ Len(profiles) = sp.maxItems
    /\ wire.served > sp.maxItems

\* a fetch of searchProfiles is answered with a successful but empty page
emptyPageReceived ==
    /\ sp.pc = "fetch"
    /\ wire'.attempts = wire.attempts + 1
    /\ wire'.last = "empty"

\* C22: while the total is unknown, the empty page that is the 5th in a row makes
\* searchProfiles leave its loop with the profiles gathered, which main then gets
\* without an error; an empty page that is not the 5th in a row (a page with people
\* starts the count anew) sends it on to the next page
C22_FiveEmptyPagesStop ==
    [][/\ (emptyPageReceived /\ sp'.totalAvailable = None) =>
            /\ wire'.emptyRun >= MAX_EMPTY_PAGES =>
                   (sp'.pc = "return" /\ sp'.profiles = sp.profiles)
            /\ wire'.emptyRun < MAX_EMPTY_PAGES =>
                   (sp'.pc = "while" /\ sp'.profiles = sp.profiles)
       /\ (sp.pc = "return" /\ sp'.pc # "return") =>
            (pc' = "filter" /\ profiles' = slice(sp.profiles, sp.maxItems))]_vars

\* searchProfiles left its loop on 5 empty pages in a row with an unknown total, after
\* an earlier run of empty pages that a page with one person had ended
C22_Witness ==
    /\ sp.pc = "return"
    /\ sp.totalAvailable = None
    /\ wire.emptyRun = MAX_EMPTY_PAGES
    /\ wire.last = "empty"
    /\ Len(sp.profiles) = 1
    /\ wire.served = 1
    /\ wire.pages > MAX_EMPTY_PAGES + 1

\* C23: once the first response of a search has reported a total of 0 (and no people),
\* no further page is requested: searchProfiles has left its loop with an empty list
C23_ZeroTotalEndsSearch ==
    wire.first = "zero" =>
        /\ wire.pages = 1
        /\ sp.pc = "return"
        /\ sp.profiles = <<>>

\* C24: a page is fetched at most 3 times; a fetch of the same page is repeated only
\* after an attempt that threw, never after a response; and the delays slept for a
\* page that failed on all its attempts are 1 s, 2 s and 4 s
C24_ThreeAttemptsWithBackoff ==
    /\ wire.attempts <= 3
    /\ (sp.pc = "fetch" /\ wire.attempts > 0) => wire.last = "threw"
    /\ (sp.pc = "return" /\ wire.exhausted) => wire.waits = <<1000, 2000, 4000>>

\* C25: after a page fetch has failed on all its attempts, searchProfiles leaves its
\* loop and returns the profiles collected until then without throwing; main takes
\* that list, does not exit with a failure, and at the end of the run every id of the
\* list has its output record
C25_ExhaustedFetchKeepsPartialResult ==
    wire.exhausted =>
        /\ sp.pc \in {"return", "returned"}
        /\ sp.pc = "return" => sp.profiles = wire.got
        /\ sp.pc = "returned" => profiles = wire.got
        /\ pc # "failed"
        /\ pc = "done" => \A id \in Range(wire.got) : RecordsOf(dataset, id) >= 1

\* a run that ended normally with records for a list that is shorter than maxItems
\* because the second page could not be fetched
C25_Witness ==
    /\ wire.exhausted
    /\ pc = "done"
    /\ Len(wire.got) >= 1
    /\ Len(wire.got) < input.maxItems
    /\ \A id \in Range(wire.got) : RecordsOf(dataset, id) = 1

\* C26: a run whose maxItems is outside of 1..500 does no work: it requests no search
\* page, writes neither the snapshot nor the search cache and produces no record
C26_InvalidMaxItemsRejected ==
    input.maxItems \notin 1..500 =>
        /\ wire.pages = 0
        /\ kvState = None
        /\ kvDump = None
        /\ dataset = EmptyBag

\* the three free-text fields of a payload
freeTextOf(p) == {p.Keyword, p.DepartmentName, p.InstitutionName}

\* C27: the payload of every search request carries in Keyword, DepartmentName and
\* InstitutionName the sanitizeInput of the run's searchKeywords, department and
\* institution, and such a value holds no control character (0x00-0x1F, 0x7F), none
\* of < > ' " ; & | ` $ ( ) \ and is no longer than the length limit
C27_PayloadIsSanitized ==
    text.payload # None =>
        LET p == The(text.payload)
        IN /\ p.Keyword = sanitizeInput(text.keyword)
           /\ p.DepartmentName = sanitizeInput(text.department)
           /\ p.InstitutionName = sanitizeInput(text.institution)
           /\ \A f \in freeTextOf(p) :
                /\ Len(f) <= LENGTH_LIMIT
                /\ \A k \in 1..Len(f) :
                     /\ f[k] \notin 0..31 \cup {127}
                     /\ f[k] \notin {60, 62, 39, 34, 59, 38, 124, 96, 36, 40, 41, 92}

\* the payload of the second page of a search whose keyword began with a GREEK
\* QUESTION MARK and a TAB and was longer than the limit: what is sent is not empty
C27_Witness ==
    /\ text.payload # None
    /\ The(text.payload).Offset = 1 + pageSize
    /\ text.keyword.type = "string"
    /\ Len(text.keyword.chars) > LENGTH_LIMIT
    /\ text.keyword.chars[1] = 894
    /\ text.keyword.chars[2] = 9
    /\ The(text.payload).Keyword # <<>>
    /\ text.department = ANumber

\* C28: after finalize() the persisted snapshot is absent and the memory has
\* totalProcessed = 0 and no processed ids, whatever the snapshot and the memory
\* were before the call
C28_FinalizeClearsEverything ==
    lastCall.op = "finalize"
    => /\ kvState = None
       /\ state.totalProcessed = 0
       /\ state.processedPersonIds = <<>>

\* finalize was called with a snapshot in the store and two ids in memory
C28_Witness ==
    /\ lastCall.op = "finalize"
    /\ lastCall.savedState # None
    /\ The(lastCall.before).totalProcessed >= 2
    /\ SetSize(The(lastCall.before).processedPersonIds) >= 2
    /\ kvState = None
    /\ state.totalProcessed = 0

\* C29: the progressPercentage of getStats() is round(100 * totalProcessed /
\* totalRequested), halves upwards, and 0 when totalRequested is 0; remaining is
\* totalRequested - totalProcessed
C29_StatsPercentageAndRemaining ==
    lastCall.op = "getStats"
    => LET stats == The(lastCall.stats)
           a == state.totalProcessed
           b == state.totalRequested
       IN /\ stats.progressPercentage =
                IF b = 0 THEN 0 ELSE (200 * a + b) \div (2 * b)
          /\ stats.remaining = b - a

C31_CheckpointFailureWritesNothing ==
    [][(/\ pc = "crawl"
        /\ pc' = "crawl"
        /\ cur # None
        /\ CopiesIn(Record(The(cur).id, "complete"), pushed) >= 1
        /\ isProcessed(The(cur).id))
       => (/\ pushed' = pushed
           /\ dataset' = dataset
           /\ state'.totalProcessed = state.totalProcessed)]_vars

C33_StopsAtFiveEmptyOrPastTotal ==
    /\ wire.emptyRun >= MAX_EMPTY_PAGES => sp.pc \notin {"while", "fetch"}
    /\ (sp.pc = "fetch" /\ sp.totalAvailable # None)
       => sp.offset <= The(sp.totalAvailable)

\* C34: when every page is a full page of 10, the k-th request has offset
\* 1 + 10 (k - 1), no request is made once maxItems profiles are collected, and
\* the search ends after ceil(maxItems / 10) requests, so after one request when
\* 1 <= maxItems < 10
C34_FullPagesRequestCount ==
    /\ sp.pc = "fetch"
       => /\ sp.offset = 1 + pageSize * (wire.pages - 1)
          /\ Len(sp.profiles) < sp.maxItems
          /\ wire.pages <= (sp.maxItems + pageSize - 1) \div pageSize
    /\ sp.pc = "return"
       => /\ wire.pages = (sp.maxItems + pageSize - 1) \div pageSize
          /\ sp.maxItems \in 1..(pageSize - 1) => wire.pages = 1

\* the search for maxItems = 25 has ended after requests at offsets 1, 11 and 21
C34_Witness ==
    /\ sp.pc = "return"
    /\ sp.maxItems = 25
    /\ wire.pages = 3
    /\ sp.offset = 21
    /\ Len(sp.profiles) = 25
    /\ wire.served = 30

\* C35: searchProfiles terminates: from every turn of its loop, whatever the
\* pages that come (people, empty, or a failure after the retries), the loop is
\* left and the function returns to main
C35_SearchTerminates ==
    (sp.pc \in {"while", "fetch"}) ~> (sp.pc = "returned")

\* the search has returned its maxItems profiles from a service that sent more
\* people than that
C35_Witness ==
    /\ sp.pc = "returned"
    /\ sp.maxItems = MaxLoopItems
    /\ Len(profiles) = MaxLoopItems
    /\ wire.served > MaxLoopItems

\* C36: the batches run one after the other: while the crawler of a batch runs,
\* only requests of that batch are queued or handled, every profile of the
\* batches before it is in the persisted snapshot, and no profile of a later batch
\* has a record; finalize is reached only with all batches run, no request
\* pending and the snapshot of the last batch saved
C36_BatchesInSequence ==
    LET upTo(n) == Range(SubSeq(remainingProfiles, 1,
                                IF n < Len(remainingProfiles) THEN n
                                ELSE Len(remainingProfiles)))
    IN /\ pc \in {"crawl", "batchCheckpoint"}
          => /\ \A r \in queue \cup cur : r.id \in Range(batchProfiles)
             /\ \A id \in Ids : RecordsOf(pushed, id) >= 1
                                => id \in upTo((batchIndex + 1) * BATCH_SIZE)
             /\ batchIndex > 0
                => /\ kvState # None
                   /\ The(kvState).processedIds # None
                   /\ handledRequests \subseteq Range(The(The(kvState).processedIds))
       /\ pc = "finalize"
          => /\ batchIndex = NumBatches
             /\ queue = {}
             /\ cur = None
             /\ kvState = Some(stateToSave)
             /\ Range(remainingProfiles) \subseteq Range(state.processedPersonIds)

\* the second batch is being handled, the profile of the first batch is in the
\* persisted snapshot and the profile of the second has no record yet
C36_Witness ==
    /\ pc = "crawl"
    /\ batchIndex = 1
    /\ cur # None
    /\ The(cur).id = remainingProfiles[batchIndex * BATCH_SIZE + 1]
    /\ kvState # None
    /\ remainingProfiles[1] \in Range(The(The(kvState).processedIds))
    /\ RecordsOf(pushed, The(cur).id) = 0

\* C37: at every moment at most one call of a handler is in progress, also after a
\* call failed or timed out and its request is tried again: the call the crawler
\* has running at its pushData or saveCheckpoint and the calls that timed out and
\* still run are never more than one, so no two sequences of pushData and
\* markProcessed interleave
C37_OneHandlerAtATime ==
    Cardinality(late) + (IF cur # None /\ hpc # "idle" THEN 1 ELSE 0) <= 1

\* C38: the cache of the candidate list (SEARCH_DUMP) is written only by stage 1 of
\* main, which a process passes once and before it has queued or handled any
\* request, and never when the run was resumed and the cache holds a non-empty
\* list; every later step of the process leaves the cache as it is
C38_CacheWrittenOnce ==
    [][/\ kvDump' # kvDump =>
           /\ pc = "search"
           /\ pc' = "filter"
           /\ ~UseCache
           /\ kvDump' = Some(profiles')
           /\ queue = {}
           /\ cur = None
           /\ batchIndex = 0
           /\ totalProcessed = 0
       /\ pc' = "search" => pc = "init"
       /\ (pc = "search" /\ UseCache /\ pc' = "filter") =>
              (kvDump' = kvDump /\ profiles' = The(kvDump))]_vars

\* C38: a resumed process took the cached list, here one longer than the maxItems of
\* its input, which a search would not have returned; records were written before
C38_Witness ==
    /\ pc = "filter"
    /\ isResumed
    /\ restarts >= 1
    /\ profiles = The(kvDump)
    /\ Len(profiles) > input.maxItems
    /\ dataset # EmptyBag

\* C39: every record with isPartial that this process wrote to the dataset, by the
\* request handler after its last attempt or by failedRequestHandler, has the
\* fields personId, displayName, institution, department, facultyRank, error,
\* isPartial = true, collectedAt and query, the query being the one of the input
C39_PartialRecordFields ==
    \A r \in BagToSet(pushed) :
        r.kind \in {"partial", "failed"} =>
            /\ {"personId", "displayName", "institution", "department", "facultyRank",
                "error", "isPartial", "collectedAt", "query"} \subseteq DOMAIN Pushed(r)
            /\ Pushed(r).personId = r.personId
            /\ Pushed(r).isPartial = TRUE
            /\ Pushed(r).query = input.searchParams

\* C40: in every state of a run, fresh or resumed with any maxItems, the count of
\* processed profiles in memory is at most the requested number, the remaining count
\* getStats returns is not negative and its percentage is at most 100
C40_ProcessedWithinRequested ==
    /\ state.totalProcessed <= state.totalRequested
    /\ getStats.remaining >= 0
    /\ getStats.progressPercentage <= 100

====
